---- MODULE Spec2Model ----
(***************************************************************************)
(* A model of the Aetharia backend: the WebSocket server of                *)
(* Backend/Src/main.js (connection, message, close, physics loop), the     *)
(* message handlers of Handlers/handleMessage.js, the zone manager and     *)
(* the world state store of World/, the terrain generator, and the player  *)
(* module.                                                                 *)
(*                                                                         *)
(* Numbers.  Every length is an integer count of 1/Scale tile, and every   *)
(* velocity an integer count of 1/Scale tile per second.  With Scale = 40  *)
(* the quantities the code computes are integers: one tick adds            *)
(* GRAVITY * dt = 1.5 tiles/s to the velocity and velocity * dt to y, the  *)
(* footprint offsets are 0.1, 0.5, 0.9 and 1.0 tile.  The arithmetic is    *)
(* that of the reals; the rounding of IEEE doubles is not modelled.        *)
(*                                                                         *)
(* A JavaScript value that may fail a typeof / isFinite / isInteger test   *)
(* is a record [k, n]: k is its kind and n the scaled number when k is     *)
(* "number".                                                               *)
(***************************************************************************)
EXTENDS Integers, Sequences, FiniteSets, TLC

\* ------------------------------------------------------------------------
\* Bounds of the model
\* ------------------------------------------------------------------------

\* Connections that may be open at once.
MaxSessions == 2

\* The height, in tiles above row 0, beyond which the model follows no
\* player: the physics loop is not run while a player is higher.
SkyLimit == 128

\* Milliseconds by which the clock advances in one step.
ClockStep == 50

\* No player is followed above this height, in tiles, in a whole flight.
FlightLimit == 1400
MaxQuantity == 3

\* ------------------------------------------------------------------------
\* Fixed-point scale and JavaScript values
\* ------------------------------------------------------------------------

Scale == 40

Tiles(n) == n * Scale

\* Math.floor of a scaled number, as a whole number of tiles.
Floor(v) == v \div Scale

\* Math.round: the nearest whole number, halves rounded up.
Round(v) == (v + (Scale \div 2)) \div Scale

Abs(n) == IF n < 0 THEN -n ELSE n

Max(a, b) == IF a >= b THEN a ELSE b

Min(a, b) == IF a <= b THEN a ELSE b

\* JavaScript's %: the remainder has the sign of the dividend.
JsRem(a, b) == IF a >= 0 THEN a % b ELSE -((-a) % b)

Num(n) == [k |-> "number", n |-> n]

Undefined == [k |-> "undefined", n |-> 0]

NaN == [k |-> "NaN", n |-> 0]

Str == [k |-> "string", n |-> 0]

\* typeof v === 'number'
IsNumber(v) == v.k \in {"number", "NaN"}

\* isFinite(v), for a v whose typeof is 'number'
IsFinite(v) == v.k = "number"

\* Number.isInteger(v)
IsInteger(v) == v.k = "number" /\ v.n % Scale = 0

\* ------------------------------------------------------------------------
\* Shared/Utils/constants.js
\* ------------------------------------------------------------------------

CHUNK_SIZE == 32

AIR == 0

DIRT == 1

STONE == 2

GRASS == 3

WATER == 4

SAND == 5

WOOD == 6

LEAVES == 7

SOLID_TILES == {DIRT, STONE, GRASS, SAND, WOOD, LEAVES}

\* ZONES.DEFINITIONS, in the order Object.entries yields them.
ZONE_DEFINITIONS ==
    << [id |-> "zone_central", minX |-> -4,  maxX |-> 3,  minY |-> -4,  maxY |-> 3],
       [id |-> "zone_north",   minX |-> -4,  maxX |-> 3,  minY |-> -12, maxY |-> -5],
       [id |-> "zone_south",   minX |-> -4,  maxX |-> 3,  minY |-> 4,   maxY |-> 11],
       [id |-> "zone_east",    minX |-> 4,   maxX |-> 11, minY |-> -4,  maxY |-> 3],
       [id |-> "zone_west",    minX |-> -12, maxX |-> -5, minY |-> -4,  maxY |-> 3] >>

ZONE_DEFAULT == "zone_central"

ZoneIds == {ZONE_DEFINITIONS[i].id : i \in DOMAIN ZONE_DEFINITIONS}

SPAWN_X == 0

SPAWN_Y == 0
MAX_INVENTORY == 36

MAX_MOVE_DELTA == 20

MIN_MESSAGE_INTERVAL == 50

\* ------------------------------------------------------------------------
\* Backend/Src/main.js: physics constants
\* ------------------------------------------------------------------------

PHYSICS_TICK_RATE == 50

GRAVITY == 30

MAX_FALL_SPEED == 25

JUMP_VELOCITY == -14

\* ------------------------------------------------------------------------
\* State
\* ------------------------------------------------------------------------

VARIABLES
    players,        \* main.js `players`: the registry, playerId -> player object
    playerKeys,     \* Object.keys(players): the registry's ids in insertion order
    wsToPlayerId,   \* main.js `wsToPlayerId`
    playerIdToWs,   \* main.js `playerIdToWs`
    readyState,     \* ws.readyState of every socket
    isAlive,        \* ws.isAlive of every socket
    zonePlayers,    \* zoneManager.js `zonePlayers`: zone id -> set of player ids
    modifications,  \* worldState.js `modifications`: <<x, y>> -> tile
    crashed,        \* an uncaught exception has ended the process
    event,          \* the callback that ran last, with its input
    sent            \* the frames that callback sent, in order: [to, frame]

vars ==
    << players, playerKeys, wsToPlayerId, playerIdToWs, readyState, isAlive,
       zonePlayers, modifications, crashed, event, sent >>

\* The sockets the server may hold, and the ids uuidv4() hands out.
Sockets == 1..MaxSessions

PlayerIdSeq == << "3f2a9c1e-id1", "7b4d0e8a-id2", "c95e1f60-id3", "e0a7b3d2-id4" >>

PlayerIds == {PlayerIdSeq[i] : i \in 1..MaxSessions}

IdIndex(id) == CHOOSE i \in DOMAIN PlayerIdSeq : PlayerIdSeq[i] = id

\* id.substring(0, 6)
Substring6(id) == << "3f2a9c", "7b4d0e", "c95e1f", "e0a7b3" >>[IdIndex(id)]

\* The ids of a set in the order the model iterates them.
RECURSIVE IdsInOrder(_)
IdsInOrder(S) ==
    IF S = {} THEN << >>
    ELSE LET first == CHOOSE id \in S : \A other \in S : IdIndex(id) <= IdIndex(other)
         IN  << first >> \o IdsInOrder(S \ {first})

\* ------------------------------------------------------------------------
\* Backend/Src/World/terrainGen.js
\* ------------------------------------------------------------------------
\* The generator's three numeric sources are tabulated for the world seed
\* 12345 over the columns -32..33 and the rows up to 31 (the chunks (-1,*)
\* and (0,*) down to chunk row 0): the surface height of a column, the
\* columns whose tree roll exceeds 0.85, and the deep stone cells whose cave
\* roll is below 0.08.  Reading a cell outside the tables is an error of
\* the model, never a silent default.

\* floor(-8 + surfaceNoise(worldX) * 16) for worldX = -32 .. 33.
SurfaceTable ==
    << -7, -7, -6, -6, -5, -5, -5, -5, -4, -4, -4, -4, -5, -5, -5, -5,
       -5, -5, -5, -5, -5, -5, -5, -5, -5, -5, -5, -5, -4, -5, -5, -5,
       -5, -5, -5, -5, -5, -5, -5, -5, -4, -4, -4, -3, -3, -2, -2, -1,
       -1, -1, -1, -1, -1, -1, -1, -1, -1, -1, -1, -1, 0, 0, 0, 0,
       0, 0 >>

surfaceY(worldX) == SurfaceTable[worldX + 33]

\* The columns worldX in -32..32 where mulberry32(chunkSeed(worldX, 0))() > 0.85.
TreeColumns ==
    {-24, -22, -16, -12, -11, -9, -8, 2, 6, 11, 19, 29}

treeChance(worldX) == worldX \in TreeColumns

\* The cells of chunks (-1,0) and (0,0) whose caveRoll, the next draw of the
\* chunk's own generator in row-major order, is below 0.08.
CaveCells ==
    {
       <<-26,4>>, <<-16,4>>, <<-15,4>>, <<-30,5>>, <<-10,6>>, <<-5,6>>, <<-14,7>>, <<-31,9>>,
       <<-29,9>>, <<-20,9>>, <<-19,9>>, <<-10,9>>, <<-32,10>>, <<-20,10>>, <<-24,11>>, <<-8,11>>,
       <<-31,12>>, <<-15,12>>, <<-12,12>>, <<-3,12>>, <<-16,13>>, <<-8,13>>, <<-4,13>>, <<-18,14>>,
       <<-9,14>>, <<-23,15>>, <<-21,15>>, <<-18,15>>, <<-14,15>>, <<-26,16>>, <<-22,16>>, <<-20,16>>,
       <<-8,16>>, <<-21,17>>, <<-19,17>>, <<-24,18>>, <<-25,19>>, <<-24,19>>, <<-27,20>>, <<-17,20>>,
       <<-14,20>>, <<-11,20>>, <<-7,20>>, <<-32,21>>, <<-19,21>>, <<-16,21>>, <<-14,21>>, <<-9,21>>,
       <<-30,22>>, <<-22,22>>, <<-13,22>>, <<-3,22>>, <<-22,23>>, <<-18,23>>, <<-8,23>>, <<-27,24>>,
       <<-30,25>>, <<-4,26>>, <<-30,27>>, <<-27,27>>, <<-23,27>>, <<-16,27>>, <<-9,27>>, <<-4,27>>,
       <<-27,28>>, <<-15,28>>, <<-7,28>>, <<-19,29>>, <<-14,29>>, <<-1,29>>, <<-30,30>>, <<-24,30>>,
       <<-15,30>>, <<-12,30>>, <<-1,30>>, <<-22,31>>, <<-16,31>>, <<-8,31>>, <<0,5>>, <<1,6>>,
       <<12,6>>, <<6,7>>, <<2,8>>, <<20,8>>, <<24,8>>, <<4,9>>, <<6,9>>, <<26,9>>,
       <<2,10>>, <<2,11>>, <<4,11>>, <<25,11>>, <<6,12>>, <<10,12>>, <<25,12>>, <<28,12>>,
       <<29,12>>, <<31,12>>, <<4,13>>, <<10,13>>, <<21,13>>, <<28,14>>, <<26,15>>, <<27,15>>,
       <<0,17>>, <<24,17>>, <<29,17>>, <<16,18>>, <<23,18>>, <<7,19>>, <<26,19>>, <<6,21>>,
       <<15,23>>, <<24,23>>, <<27,23>>, <<0,24>>, <<17,24>>, <<24,24>>, <<26,24>>, <<26,25>>,
       <<12,26>>, <<13,27>>, <<22,27>>, <<31,27>>, <<19,29>>, <<20,29>>, <<30,29>>, <<23,30>>,
       <<10,31>>
    }

CaveTable == [worldY \in 0..31 |-> {c[1] : c \in {d \in CaveCells : d[2] = worldY}}]

caveRoll(worldX, worldY) == worldX \in CaveTable[worldY]

seaLevel == -2

\* The tile of a cell by its depth below the surface.
depthTile(depth) ==
    IF depth < 0 THEN AIR
    ELSE IF depth = 0 THEN GRASS
    ELSE IF depth <= 4 THEN DIRT
    ELSE STONE

\* Water in low areas.
waterTile(tile, worldY) == IF tile = AIR /\ worldY > seaLevel THEN WATER ELSE tile

\* Sand near water.
sandTile(tile, worldX, depth, surface) ==
    IF /\ tile \in {GRASS, DIRT}
       /\ depth <= 1
       /\ (surfaceY(worldX + 1) > seaLevel \/ surface > seaLevel)
       /\ Abs(surface - seaLevel) <= 2
    THEN SAND ELSE tile

\* Trees: the trunk from surface - 4 to surface - 1, the leaves above it.
treeTile(tile, worldX, worldY, depth, surface) ==
    IF tile = AIR /\ depth < 0 /\ depth >= -5 /\ treeChance(worldX)
    THEN IF worldY = (surface - 4) - 1 THEN LEAVES
         ELSE IF worldY >= surface - 4 /\ worldY <= surface - 1 THEN WOOD
         ELSE tile
    ELSE tile

\* Underground caves.
caveTile(tile, worldX, worldY, depth) ==
    IF tile = STONE /\ depth > 8 /\ caveRoll(worldX, worldY) THEN AIR ELSE tile

\* The body of generateChunk's inner loop for the cell (worldX, worldY) of
\* a column whose surface height is `surface`.
columnTile(worldX, worldY, surface) ==
    caveTile(
       treeTile(
          sandTile(waterTile(depthTile(worldY - surface), worldY),
                   worldX, worldY - surface, surface),
          worldX, worldY, worldY - surface, surface),
       worldX, worldY, worldY - surface)

\* The tile generateChunk(chunkX, chunkY) stores at tiles[localY][localX].
ChunkCell(chunkX, chunkY, localX, localY) ==
    columnTile(chunkX * CHUNK_SIZE + localX, chunkY * CHUNK_SIZE + localY,
               surfaceY(chunkX * CHUNK_SIZE + localX))

\* A generator that keeps its grids and lets the edits of the world write
\* through to them.
generateChunk_KeepsEdits(chunkX, chunkY) ==
    [x |-> chunkX, y |-> chunkY,
     tiles |-> [localY \in 0..(CHUNK_SIZE - 1) |->
                  [localX \in 0..(CHUNK_SIZE - 1) |->
                     IF << chunkX * CHUNK_SIZE + localX, chunkY * CHUNK_SIZE + localY >>
                           \in DOMAIN modifications
                     THEN modifications[<< chunkX * CHUNK_SIZE + localX,
                                           chunkY * CHUNK_SIZE + localY >>]
                     ELSE ChunkCell(chunkX, chunkY, localX, localY)]]]

generateChunk(chunkX, chunkY) ==
    [x |-> chunkX, y |-> chunkY,
     tiles |-> [localY \in 0..(CHUNK_SIZE - 1) |->
                  [localX \in 0..(CHUNK_SIZE - 1) |->
                     ChunkCell(chunkX, chunkY, localX, localY)]]]

\* ------------------------------------------------------------------------
\* Backend/Src/World/worldState.js
\* ------------------------------------------------------------------------

\* The key without the row.
ModKey_DropsRow(worldX, worldY) == << worldX, 0 >>

\* The key `${worldX},${worldY}` of an integer coordinate.
ModKey(worldX, worldY) == << worldX, worldY >>

\* placeBlock: the modification map after the call, and whether it succeeded.
\* worldX, worldY and tileType are JavaScript values.
placeBlock(mods, worldX, worldY, tileType) ==
    IF ~IsInteger(worldX) \/ ~IsInteger(worldY)
    THEN [ok |-> FALSE, mods |-> mods]
    ELSE IF ~IsInteger(tileType) \/ tileType.n < Tiles(0) \/ tileType.n > Tiles(7)
    THEN [ok |-> FALSE, mods |-> mods]
    ELSE LET key == ModKey(Floor(worldX.n), Floor(worldY.n))
         IN  [ok |-> TRUE,
              mods |-> [k \in DOMAIN mods \cup {key} |->
                          IF k = key THEN Floor(tileType.n) ELSE mods[k]]]

\* removeBlock deleting the override in place of storing AIR.
removeBlock_DeletesOverride(mods, worldX, worldY) ==
    IF ~IsInteger(worldX) \/ ~IsInteger(worldY)
    THEN [ok |-> FALSE, mods |-> mods]
    ELSE LET key == ModKey(Floor(worldX.n), Floor(worldY.n))
         IN  [ok |-> TRUE, mods |-> [k \in DOMAIN mods \ {key} |-> mods[k]]]

\* removeBlock is placeBlock with AIR.
removeBlock(mods, worldX, worldY) == placeBlock(mods, worldX, worldY, Num(Tiles(AIR)))

\* getTile with the remainders of % used as they come, negative ones too.
getTile_SignedRemainder(mods, worldX, worldY) ==
    IF ModKey(worldX, worldY) \in DOMAIN mods
    THEN mods[ModKey(worldX, worldY)]
    ELSE ChunkCell(worldX \div CHUNK_SIZE, worldY \div CHUNK_SIZE,
                   JsRem(worldX, CHUNK_SIZE), JsRem(worldY, CHUNK_SIZE))

\* getTile at a whole-tile coordinate.
getTile(mods, worldX, worldY) ==
    IF ModKey(worldX, worldY) \in DOMAIN mods
    THEN mods[ModKey(worldX, worldY)]
    ELSE LET chunkX == worldX \div CHUNK_SIZE
             chunkY == worldY \div CHUNK_SIZE
             localX == JsRem(JsRem(worldX, CHUNK_SIZE) + CHUNK_SIZE, CHUNK_SIZE)
             localY == JsRem(JsRem(worldY, CHUNK_SIZE) + CHUNK_SIZE, CHUNK_SIZE)
         IN  ChunkCell(chunkX, chunkY, localX, localY)

\* The generated chunk, with nothing laid over it.
getModifiedChunk_BaseOnly(mods, chunkX, chunkY) == generateChunk(chunkX, chunkY)

\* The overlay with the local row and column exchanged in the key.
getModifiedChunk_SwapsAxes(mods, chunkX, chunkY) ==
    LET chunk == generateChunk(chunkX, chunkY)
        startX == chunkX * CHUNK_SIZE
        startY == chunkY * CHUNK_SIZE
    IN  [chunk EXCEPT !.tiles =
            [ly \in 0..(CHUNK_SIZE - 1) |->
               [lx \in 0..(CHUNK_SIZE - 1) |->
                  IF ModKey(startX + ly, startY + lx) \in DOMAIN mods
                  THEN mods[ModKey(startX + ly, startY + lx)]
                  ELSE chunk.tiles[ly][lx]]]]

\* getModifiedChunk: the generated chunk with the modifications inside its
\* bounds laid over it.
getModifiedChunk(mods, chunkX, chunkY) ==
    LET chunk == generateChunk(chunkX, chunkY)
        startX == chunkX * CHUNK_SIZE
        startY == chunkY * CHUNK_SIZE
    IN  [chunk EXCEPT !.tiles =
            [ly \in 0..(CHUNK_SIZE - 1) |->
               [lx \in 0..(CHUNK_SIZE - 1) |->
                  IF ModKey(startX + lx, startY + ly) \in DOMAIN mods
                  THEN mods[ModKey(startX + lx, startY + ly)]
                  ELSE chunk.tiles[ly][lx]]]]

\* main.js isSolid, on scaled coordinates.
isSolid(mods, tileX, tileY) == getTile(mods, Floor(tileX), Floor(tileY)) \in SOLID_TILES

\* ------------------------------------------------------------------------
\* Backend/Src/World/zoneManager.js
\* ------------------------------------------------------------------------

RECURSIVE ZoneScan(_, _, _)
ZoneScan(i, chunkX, chunkY) ==
    IF i > Len(ZONE_DEFINITIONS) THEN ZONE_DEFAULT
    ELSE LET bounds == ZONE_DEFINITIONS[i]
         IN  IF /\ chunkX >= bounds.minX
                /\ chunkX <= bounds.maxX
                /\ chunkY >= bounds.minY
                /\ chunkY <= bounds.maxY
             THEN bounds.id
             ELSE ZoneScan(i + 1, chunkX, chunkY)

\* getZoneForPosition, on scaled tile coordinates.
getZoneForPosition(tileX, tileY) ==
    ZoneScan(1, tileX \div (CHUNK_SIZE * Scale), tileY \div (CHUNK_SIZE * Scale))

\* assignPlayerToZone: the zone index after the call.
assignPlayerToZone(zp, playerId, tileX, tileY) ==
    LET zoneId == getZoneForPosition(tileX, tileY)
    IN  [zp EXCEPT ![zoneId] = @ \cup {playerId}]

\* removePlayerFromZone that removes nothing.
removePlayerFromZone_KeepsMember(zp, playerId, zoneId) == zp

\* removePlayerFromZone: the zone index after the call.
removePlayerFromZone(zp, playerId, zoneId) ==
    IF zoneId \in DOMAIN zp THEN [zp EXCEPT ![zoneId] = @ \ {playerId}] ELSE zp

\* checkZoneTransfer without the removal from the old zone.
checkZoneTransfer_KeepsOldZone(zp, playerId, currentZone, newX, newY) ==
    LET newZone == getZoneForPosition(newX, newY)
    IN  IF newZone # currentZone
        THEN [zone |-> newZone, zp |-> [zp EXCEPT ![newZone] = @ \cup {playerId}]]
        ELSE [zone |-> "null", zp |-> zp]

\* A transfer check that never finds a new zone.
checkZoneTransfer_NeverTransfers(zp, playerId, currentZone, newX, newY) ==
    [zone |-> "null", zp |-> zp]

\* checkZoneTransfer: the new zone ("null" when unchanged) and the zone index
\* after the call.
checkZoneTransfer(zp, playerId, currentZone, newX, newY) ==
    LET newZone == getZoneForPosition(newX, newY)
    IN  IF newZone # currentZone
        THEN [zone |-> newZone,
              zp |-> [removePlayerFromZone(zp, playerId, currentZone)
                         EXCEPT ![newZone] = @ \cup {playerId}]]
        ELSE [zone |-> "null", zp |-> zp]

getZonePlayers(zp, zoneId) ==
    IF zoneId \in DOMAIN zp THEN IdsInOrder(zp[zoneId]) ELSE << >>

\* ------------------------------------------------------------------------
\* Backend/Src/Player/player.js
\* ------------------------------------------------------------------------

\* createPlayer(id).  The object has no velocityY and no onGround property:
\* velocityY reads as undefined, and onGround, which reads as a falsy
\* undefined, is FALSE here.  lastMessageAge is Date.now() - lastMessageAt,
\* kept only up to MIN_MESSAGE_INTERVAL.
createPlayer(id) ==
    [id |-> id,
     x |-> Tiles(SPAWN_X),
     y |-> Tiles(SPAWN_Y),
     zone |-> "null",
     name |-> Substring6(id),
     color |-> "#FF5722",
     lastMessageAge |-> 0,
     isAI |-> FALSE,
     velocityY |-> Undefined,
     onGround |-> FALSE,
     inventory |-> << >>]

\* ------------------------------------------------------------------------
\* Backend/Src/Player/inventory.js
\* ------------------------------------------------------------------------

\* A quantity is an integer; 0 stands for 0 and for an absent quantity,
\* which `quantity || 1` treats alike.
orOne(quantity) == IF quantity = 0 THEN 1 ELSE quantity

\* The index of the first entry of that name, 0 when there is none.
findIndex(inventory, name) ==
    IF \E i \in DOMAIN inventory : inventory[i].name = name
    THEN CHOOSE i \in DOMAIN inventory :
            /\ inventory[i].name = name
            /\ \A j \in 1 .. i - 1 : inventory[j].name # name
    ELSE 0

\* addItem(player, item): the player after the call and the value returned.
\* item.name is "" when the name is absent or empty.
addItem(player, item) ==
    LET index == findIndex(player.inventory, item.name)
    IN  IF item.name = "" THEN [player |-> player, result |-> FALSE]
        ELSE IF index # 0
        THEN [player |-> [player EXCEPT !.inventory[index].quantity =
                                           orOne(@) + orOne(item.quantity)],
              result |-> TRUE]
        ELSE IF Len(player.inventory) >= MAX_INVENTORY
        THEN [player |-> player, result |-> FALSE]
        ELSE [player |-> [player EXCEPT !.inventory =
                            Append(@, [name |-> item.name,
                                       type |-> IF item.type = "" THEN "misc"
                                                ELSE item.type,
                                       quantity |-> orOne(item.quantity)])],
              result |-> TRUE]

\* removeItem(player, itemName, quantity).
removeItem(player, itemName, quantity) ==
    LET index == findIndex(player.inventory, itemName)
        left == orOne(player.inventory[index].quantity) - quantity
    IN  IF itemName = "" \/ index = 0 THEN [player |-> player, result |-> FALSE]
        ELSE IF left <= 0
        THEN [player |-> [player EXCEPT !.inventory =
                            SubSeq(@, 1, index - 1) \o SubSeq(@, index + 1, Len(@))],
              result |-> TRUE]
        ELSE [player |-> [player EXCEPT !.inventory[index].quantity = left],
              result |-> TRUE]

\* ------------------------------------------------------------------------
\* Backend/Src/main.js
\* ------------------------------------------------------------------------

\* broadcastToZone without the zone: a frame to every registered player
\* whose socket is open, the excluded id apart.
broadcastToZone_EveryZone(zp, idToWs, ready, zoneId, message, excludePlayerId) ==
    LET members == IdsInOrder(DOMAIN idToWs)
        targets == SelectSeq(members,
                      LAMBDA pid : /\ pid # excludePlayerId
                                   /\ ready[idToWs[pid]] = "OPEN")
    IN  [i \in DOMAIN targets |-> [to |-> idToWs[targets[i]], frame |-> message]]

\* broadcastToZone without the exclusion.
broadcastToZone_ExcludesNoOne(zp, idToWs, ready, zoneId, message, excludePlayerId) ==
    LET members == getZonePlayers(zp, zoneId)
        targets == SelectSeq(members,
                      LAMBDA pid : /\ pid \in DOMAIN idToWs
                                   /\ ready[idToWs[pid]] = "OPEN")
    IN  [i \in DOMAIN targets |-> [to |-> idToWs[targets[i]], frame |-> message]]

\* broadcastToZone: the frames it sends, one to every member of the zone
\* whose socket is open, the excluded id apart.
broadcastToZone(zp, idToWs, ready, zoneId, message, excludePlayerId) ==
    LET members == getZonePlayers(zp, zoneId)
        targets == SelectSeq(members,
                      LAMBDA pid : /\ pid # excludePlayerId
                                   /\ pid \in DOMAIN idToWs
                                   /\ ready[idToWs[pid]] = "OPEN")
    IN  [i \in DOMAIN targets |-> [to |-> idToWs[targets[i]], frame |-> message]]

RECURSIVE SpawnScan(_, _, _)
SpawnScan(mods, spawnX, y) ==
    IF y >= 50 THEN 0
    ELSE IF /\ getTile(mods, spawnX, y) \notin SOLID_TILES
            /\ getTile(mods, spawnX, y + 1) \in SOLID_TILES
         THEN y
         ELSE SpawnScan(mods, spawnX, y + 1)

\* findSpawnSurface: a whole number of tiles.
findSpawnSurface(mods, spawnX) == SpawnScan(mods, spawnX, -20)

\* A generator that returns the same id at every call.
uuidv4_SameIdAgain == PlayerIdSeq[1]

\* uuidv4(): an id no registered player has.
uuidv4 == CHOOSE id \in PlayerIds \ DOMAIN players :
              \A other \in PlayerIds \ DOMAIN players : IdIndex(id) <= IdIndex(other)

Init ==
    /\ players = << >>
    /\ playerKeys = << >>
    /\ wsToPlayerId = << >>
    /\ playerIdToWs = << >>
    /\ readyState = [ws \in Sockets |-> "NONE"]
    /\ isAlive = [ws \in Sockets |-> FALSE]
    /\ zonePlayers = [z \in ZoneIds |-> {}]
    /\ modifications = << >>
    /\ crashed = FALSE
    /\ event = [op |-> "start"]
    /\ sent = << >>

\* The player object once the connection callback has probed the spawn
\* surface, assigned the zone and stored it.
spawnAt(created, spawnY) ==
    [created EXCEPT !.y = Tiles(spawnY), !.onGround = TRUE,
                    !.zone = getZoneForPosition(created.x, Tiles(spawnY))]

spawnPlayer(created) ==
    spawnAt(created, findSpawnSurface(modifications, Round(created.x)))

\* The connection callback from the registration of the player on.
Accept(ws, playerId, player) ==
    LET zp == assignPlayerToZone(zonePlayers, playerId, player.x, player.y)
        idToWs == [id \in DOMAIN playerIdToWs \cup {playerId} |->
                      IF id = playerId THEN ws ELSE playerIdToWs[id]]
        ready == [readyState EXCEPT ![ws] = "OPEN"]
        spawnChunkX == player.x \div (CHUNK_SIZE * Scale)
        spawnChunkY == player.y \div (CHUNK_SIZE * Scale)
        welcome == [type |-> "welcome", id |-> playerId, name |-> player.name,
                    color |-> player.color, x |-> player.x, y |-> player.y,
                    zone |-> player.zone,
                    chunks |-> (spawnChunkX - 1 .. spawnChunkX + 1)
                                  \X (spawnChunkY - 1 .. spawnChunkY + 1),
                    mods |-> modifications]
        joined == [type |-> "playerJoined", id |-> playerId, name |-> player.name,
                   color |-> player.color, x |-> player.x, y |-> player.y]
        others == SelectSeq(getZonePlayers(zp, player.zone),
                     LAMBDA pid : pid # playerId /\ pid \in DOMAIN players)
        existing == [type |-> "existingPlayers",
                     players |-> [i \in DOMAIN others |->
                                    [id |-> others[i], name |-> players[others[i]].name,
                                     color |-> players[others[i]].color,
                                     x |-> players[others[i]].x,
                                     y |-> players[others[i]].y]]]
    IN  /\ players' = [id \in DOMAIN players \cup {playerId} |->
                         IF id = playerId THEN player ELSE players[id]]
        /\ playerKeys' = Append(playerKeys, playerId)
        /\ wsToPlayerId' = [s \in DOMAIN wsToPlayerId \cup {ws} |->
                              IF s = ws THEN playerId ELSE wsToPlayerId[s]]
        /\ playerIdToWs' = idToWs
        /\ readyState' = ready
        /\ isAlive' = [isAlive EXCEPT ![ws] = TRUE]
        /\ zonePlayers' = zp
        /\ sent' = << [to |-> ws, frame |-> welcome] >>
                   \o broadcastToZone(zp, idToWs, ready, player.zone, joined, playerId)
                   \o (IF Len(others) > 0 THEN << [to |-> ws, frame |-> existing] >>
                       ELSE << >>)
        /\ event' = [op |-> "connection", ws |-> ws, id |-> playerId]

\* wss.on('connection'): both listeners.
Connect(ws) ==
    /\ ~crashed
    /\ readyState[ws] = "NONE"
    /\ \A other \in Sockets : readyState[other] = "NONE" => ws <= other
    /\ Accept(ws, uuidv4, spawnPlayer(createPlayer(uuidv4)))
    /\ UNCHANGED << modifications, crashed >>

\* ws.on('close').  The socket has left the OPEN state before the event
\* fires; its slot is free again afterwards.
Close(ws) ==
    /\ ~crashed
    /\ readyState[ws] = "CLOSING"
    /\ LET playerId == wsToPlayerId[ws]
           hasPlayer == playerId \in DOMAIN players
           zoneId == IF hasPlayer THEN players[playerId].zone ELSE "null"
           zp == IF zoneId # "null"
                 THEN removePlayerFromZone(zonePlayers, playerId, zoneId)
                 ELSE zonePlayers
           idToWs == [id \in DOMAIN playerIdToWs \ {playerId} |-> playerIdToWs[id]]
           ready == [readyState EXCEPT ![ws] = "NONE"]
       IN  /\ zonePlayers' = zp
           /\ wsToPlayerId' = [s \in DOMAIN wsToPlayerId \ {ws} |-> wsToPlayerId[s]]
           /\ playerIdToWs' = idToWs
           /\ players' = [id \in DOMAIN players \ {playerId} |-> players[id]]
           /\ playerKeys' = SelectSeq(playerKeys, LAMBDA id : id # playerId)
           /\ readyState' = ready
           /\ isAlive' = [isAlive EXCEPT ![ws] = FALSE]
           /\ sent' = IF zoneId # "null"
                      THEN broadcastToZone(zp, idToWs, ready, zoneId,
                              [type |-> "playerLeft", id |-> playerId,
                               name |-> players[playerId].name,
                               color |-> players[playerId].color], "null")
                      ELSE << >>
           /\ event' = [op |-> "close", ws |-> ws, id |-> playerId]
    /\ UNCHANGED << modifications, crashed >>

\* The peer closes the connection, or the connection is lost: the socket
\* leaves the OPEN state and its 'close' event is pending.
Disconnect(ws) ==
    /\ ~crashed
    /\ readyState[ws] = "OPEN"
    /\ readyState' = [readyState EXCEPT ![ws] = "CLOSING"]
    /\ event' = [op |-> "disconnect", ws |-> ws]
    /\ sent' = << >>
    /\ UNCHANGED << players, playerKeys, wsToPlayerId, playerIdToWs, isAlive,
                    zonePlayers, modifications, crashed >>

\* ------------------------------------------------------------------------
\* Backend/Src/Handlers/handleMessage.js
\* ------------------------------------------------------------------------
\* A handler is an operator from the message, the sender and the current
\* state to the state it leaves: the registry, the zone index, the
\* modification map and the frames it sent.

\* n tenths of a tile, scaled.
Tenths(n) == (n * Scale) \div 10

Outcome(ps, zp, mods, frames) ==
    [players |-> ps, zonePlayers |-> zp, modifications |-> mods, sent |-> frames]

\* sendError: the frames it sends.
sendError_ToEveryOpenSocket(ws, message) ==
    LET open == SelectSeq([s \in Sockets |-> s], LAMBDA s : readyState[s] = "OPEN")
    IN  [i \in DOMAIN open |->
            [to |-> open[i], frame |-> [type |-> "error", message |-> message]]]

sendError(ws, message) ==
    IF readyState[ws] = "OPEN"
    THEN << [to |-> ws, frame |-> [type |-> "error", message |-> message]] >>
    ELSE << >>

Rejected(ps, ws, message) ==
    Outcome(ps, zonePlayers, modifications, sendError(ws, message))

\* The delta test with >= in place of >.
exceedsMoveDelta_AtLimit(x, player) == Abs(x - player.x) >= Tiles(MAX_MOVE_DELTA)

\* dx > PLAYER.MAX_MOVE_DELTA, for a finite x.
exceedsMoveDelta(x, player) == Abs(x - player.x) > Tiles(MAX_MOVE_DELTA)

\* The branch that reads the client's y, storing it as the earlier handler did.
acceptClientY_Stores(player, y) ==
    IF IsNumber(y) /\ IsFinite(y) /\ Abs(y.n - player.y) <= Tiles(MAX_MOVE_DELTA)
    THEN [player EXCEPT !.y = y.n]
    ELSE player

\* The branch that reads the client's y: its body holds comments only, so
\* the player is left as it is.
acceptClientY(player, y) == player

\* The playerMoved frame with the client's y echoed when the message has one.
playerMovedFrame_EchoesY(data, playerId, player) ==
    [type |-> "playerMoved", id |-> playerId, x |-> player.x,
     y |-> IF IsNumber(data.y) /\ IsFinite(data.y) THEN data.y.n ELSE player.y]

\* The playerMoved frame handleMove broadcasts.
playerMovedFrame(data, playerId, player) ==
    [type |-> "playerMoved", id |-> playerId, x |-> player.x, y |-> player.y]

\* The horizontal collision test: the head or the feet tile of the target
\* column is solid.
\* A move that nothing blocks.
moveBlocked_Never(x, player) == FALSE

\* The horizontal collision check.
moveBlocked(x, player) ==
    LET newTileX == Floor(x + (IF x > player.x THEN Tenths(9) ELSE 0))
        playerTileY == Floor(player.y)
        headY == Tiles(playerTileY)
        feetY == Tiles(playerTileY) + Tenths(9)
        headTile == getTile(modifications, newTileX, Floor(headY))
        feetTile == getTile(modifications, newTileX, Floor(feetY))
    IN  headTile \in SOLID_TILES \/ feetTile \in SOLID_TILES

\* A jump request granted in mid-air too.
applyJump_InMidAir(player, jump) ==
    IF jump
    THEN [player EXCEPT !.velocityY = Num(Tiles(-280)), !.onGround = FALSE]
    ELSE player

\* The jump request.
applyJump(player, jump) ==
    IF jump /\ player.onGround
    THEN [player EXCEPT !.velocityY = Num(Tiles(-280)), !.onGround = FALSE]
    ELSE player

\* handleMove from the zone transfer check on: `transfer` is what
\* checkZoneTransfer returned for the player's position.
moveTransfer(data, ps, playerId, ws, player, transfer) ==
    LET oldZone == player.zone
        newZone == transfer.zone
        final == IF newZone # "null" THEN [player EXCEPT !.zone = newZone] ELSE player
        zp == transfer.zp
        transferFrames ==
            IF newZone # "null"
            THEN broadcastToZone(zp, playerIdToWs, readyState, oldZone,
                    [type |-> "playerLeft", id |-> playerId], "null")
                 \o broadcastToZone(zp, playerIdToWs, readyState, newZone,
                    [type |-> "playerJoined", id |-> playerId,
                     x |-> final.x, y |-> final.y], playerId)
                 \o << [to |-> ws, frame |-> [type |-> "zoneChanged", zone |-> newZone]] >>
            ELSE << >>
        movedFrames ==
            broadcastToZone(zp, playerIdToWs, readyState, final.zone,
               playerMovedFrame(data, playerId, final), playerId)
    IN  Outcome([ps EXCEPT ![playerId] = final], zp, modifications,
                transferFrames \o movedFrames)

\* handleMove once the player's x, jump and y have been dealt with.
moveCommit(data, ps, playerId, ws, player) ==
    moveTransfer(data, ps, playerId, ws, player,
       checkZoneTransfer(zonePlayers, playerId, player.zone, player.x, player.y))

handleMove(data, ps, playerId, ws) ==
    IF ~IsNumber(data.x) THEN Rejected(ps, ws, "Move requires numeric x")
    ELSE IF ~IsFinite(data.x) THEN Rejected(ps, ws, "Move coordinates must be finite")
    ELSE IF exceedsMoveDelta(data.x.n, ps[playerId])
    THEN Rejected(ps, ws, "Movement too large")
    ELSE moveCommit(data, ps, playerId, ws,
            acceptClientY(
               applyJump(IF moveBlocked(data.x.n, ps[playerId])
                         THEN ps[playerId]
                         ELSE [ps[playerId] EXCEPT !.x = data.x.n],
                         data.jump),
               data.y))

\* String.prototype.trim on a sequence of characters; " " is the white space.
RECURSIVE TrimLeft(_)
TrimLeft(m) == IF Len(m) > 0 /\ m[1] = " " THEN TrimLeft(Tail(m)) ELSE m

RECURSIVE TrimRight(_)
TrimRight(m) ==
    IF Len(m) > 0 /\ m[Len(m)] = " " THEN TrimRight(SubSeq(m, 1, Len(m) - 1)) ELSE m

Trim(m) == TrimRight(TrimLeft(m))

\* replace(/[\x00-\x1F\x7F]/g, ''); "^A" is the control character.
StripControl(m) == SelectSeq(m, LAMBDA c : c # "^A")

\* data.message is a sequence of characters, or undefined.
handleChat(data, ps, playerId) ==
    LET player == ps[playerId]
        unchanged == Outcome(ps, zonePlayers, modifications, << >>)
    IN  IF data.message.k # "string" THEN unchanged
        ELSE IF Len(Trim(data.message.s)) = 0 THEN unchanged
        ELSE LET trimmed == Trim(data.message.s)
                 message == StripControl(SubSeq(trimmed, 1, Min(Len(trimmed), 500)))
             IN  IF Len(message) = 0 THEN unchanged
                 ELSE Outcome(ps, zonePlayers, modifications,
                         broadcastToZone(zonePlayers, playerIdToWs, readyState, player.zone,
                            [type |-> "chatMessage", id |-> playerId, message |-> message],
                            "null"))

\* The distance test with chunks at distance 6 let through.
chunkTooFar_BeyondSix(chunkDistance) == chunkDistance > 6

\* chunkDistance > 5
chunkTooFar(chunkDistance) == chunkDistance > 5

handleRequestChunk(data, ps, playerId, ws) ==
    LET player == ps[playerId]
    IN  IF ~IsNumber(data.chunkX) \/ ~IsNumber(data.chunkY)
        THEN Rejected(ps, ws, "requestChunk requires numeric chunkX and chunkY")
        ELSE IF ~IsInteger(data.chunkX) \/ ~IsInteger(data.chunkY)
        THEN Rejected(ps, ws, "Chunk coordinates must be integers")
        ELSE
        LET chunkX == Floor(data.chunkX.n)
            chunkY == Floor(data.chunkY.n)
            playerChunkX == player.x \div (CHUNK_SIZE * Scale)
            playerChunkY == player.y \div (CHUNK_SIZE * Scale)
            chunkDistance == Max(Abs(chunkX - playerChunkX), Abs(chunkY - playerChunkY))
        IN  IF chunkTooFar(chunkDistance)
            THEN Rejected(ps, ws, "Requested chunk is too far from your position")
            ELSE Outcome(ps, zonePlayers, modifications,
                    << [to |-> ws,
                        frame |-> [type |-> "chunkData",
                                   chunk |-> [x |-> chunkX, y |-> chunkY],
                                   mods |-> modifications]] >>)

\* The agents' range granted to every player.
maxRange_AgentsForAll(player) == 50

\* player.isAI ? 50 : 10
maxRange(player) == IF player.isAI THEN 50 ELSE 10

\* The tile test with 8 let through.
invalidTileType_UpToEight(tile) ==
    ~IsInteger(tile) \/ tile.n < Tiles(0) \/ tile.n > Tiles(8)

\* !Number.isInteger(tile) || tile < 0 || tile > 7
invalidTileType(tile) == ~IsInteger(tile) \/ tile.n < Tiles(0) \/ tile.n > Tiles(7)

handlePlaceBlock(data, ps, playerId, ws) ==
    LET player == ps[playerId]
    IN  IF ~IsInteger(data.x) \/ ~IsInteger(data.y)
        THEN Rejected(ps, ws, "placeBlock requires integer x and y")
        ELSE IF invalidTileType(data.tile)
        THEN Rejected(ps, ws, "placeBlock requires valid tile type (0-7)")
        ELSE
        LET dx == Abs(Floor(data.x.n) - Round(player.x))
            dy == Abs(Floor(data.y.n) - Round(player.y))
            placed == placeBlock(modifications, data.x, data.y, data.tile)
        IN  IF dx > maxRange(player) \/ dy > maxRange(player)
            THEN Rejected(ps, ws, "Block placement too far from your position")
            ELSE IF ~placed.ok THEN Rejected(ps, ws, "Failed to place block")
            ELSE Outcome(ps, zonePlayers, placed.mods,
                    broadcastToZone(zonePlayers, playerIdToWs, readyState, player.zone,
                       [type |-> "blockUpdate", x |-> Floor(data.x.n), y |-> Floor(data.y.n),
                        tile |-> Floor(data.tile.n), placedBy |-> playerId], "null"))

\* handleRemoveBlock without the test of the current tile.
handleRemoveBlock_SkipsAirTest(data, ps, playerId, ws) ==
    LET player == ps[playerId]
    IN  IF ~IsInteger(data.x) \/ ~IsInteger(data.y)
        THEN Rejected(ps, ws, "removeBlock requires integer x and y")
        ELSE
        LET dx == Abs(Floor(data.x.n) - Round(player.x))
            dy == Abs(Floor(data.y.n) - Round(player.y))
            removed == removeBlock(modifications, data.x, data.y)
        IN  IF dx > maxRange(player) \/ dy > maxRange(player)
            THEN Rejected(ps, ws, "Block removal too far from your position")
            ELSE IF ~removed.ok THEN Rejected(ps, ws, "Failed to remove block")
            ELSE Outcome(ps, zonePlayers, removed.mods,
                    broadcastToZone(zonePlayers, playerIdToWs, readyState, player.zone,
                       [type |-> "blockUpdate", x |-> Floor(data.x.n), y |-> Floor(data.y.n),
                        tile |-> AIR, placedBy |-> playerId], "null"))

handleRemoveBlock(data, ps, playerId, ws) ==
    LET player == ps[playerId]
    IN  IF ~IsInteger(data.x) \/ ~IsInteger(data.y)
        THEN Rejected(ps, ws, "removeBlock requires integer x and y")
        ELSE
        LET dx == Abs(Floor(data.x.n) - Round(player.x))
            dy == Abs(Floor(data.y.n) - Round(player.y))
            currentTile == getTile(modifications, Floor(data.x.n), Floor(data.y.n))
            removed == removeBlock(modifications, data.x, data.y)
        IN  IF dx > maxRange(player) \/ dy > maxRange(player)
            THEN Rejected(ps, ws, "Block removal too far from your position")
            ELSE IF currentTile = AIR
            THEN Rejected(ps, ws, "No block to remove at that position")
            ELSE IF ~removed.ok THEN Rejected(ps, ws, "Failed to remove block")
            ELSE Outcome(ps, zonePlayers, removed.mods,
                    broadcastToZone(zonePlayers, playerIdToWs, readyState, player.zone,
                       [type |-> "blockUpdate", x |-> Floor(data.x.n), y |-> Floor(data.y.n),
                        tile |-> AIR, placedBy |-> playerId], "null"))

\* The catch block of the message callback: the failure is logged; nothing
\* is sent, nothing is closed and nothing the handler wrote is undone.
caught_RepliesError(ps, playerId, ws) == Rejected(ps, ws, "Bad message")

caught_RemovesPlayer(ps, playerId, ws) ==
    Outcome([id \in DOMAIN ps \ {playerId} |-> ps[id]],
            removePlayerFromZone(zonePlayers, playerId, ps[playerId].zone),
            modifications, << >>)

caught(ps, playerId, ws) == Outcome(ps, zonePlayers, modifications, << >>)

\* data.target and data.action are given by their truthiness. A target
\* marked opaque is an object with no conversion to a string, such as
\* {"toString": null}: the template literal of the log line throws.
handleInteract(data, ps, playerId, ws) ==
    IF ~data.target \/ ~data.action
    THEN Rejected(ps, ws, "interact requires target and action")
    ELSE IF "opaque" \in DOMAIN data
    THEN caught(ps, playerId, ws)
    ELSE Outcome(ps, zonePlayers, modifications,
            << [to |-> ws, frame |-> [type |-> "interactResult",
                                      result |-> "not_implemented"]] >>)

\* data.name is a string, or "" when the field is absent, empty or blank;
\* data.validColor says whether data.color is a string of the form #RRGGBB.
handleSetProfile(data, ps, playerId, ws) ==
    LET player == ps[playerId]
        named == IF data.name # "" THEN [player EXCEPT !.name = data.name] ELSE player
        final == IF data.validColor THEN [named EXCEPT !.color = data.color] ELSE named
    IN  Outcome([ps EXCEPT ![playerId] = final], zonePlayers, modifications,
           broadcastToZone(zonePlayers, playerIdToWs, readyState, final.zone,
              [type |-> "profileUpdate", id |-> playerId,
               name |-> final.name, color |-> final.color], "null"))

\* handleMessage: the unknown-player return, the rate limit, the dispatch.
handleMessage(data, playerId, ws) ==
    IF playerId \notin DOMAIN players
    THEN Outcome(players, zonePlayers, modifications, << >>)
    ELSE IF players[playerId].lastMessageAge < MIN_MESSAGE_INTERVAL
    THEN Outcome(players, zonePlayers, modifications, << >>)
    ELSE
    LET ps == [players EXCEPT ![playerId].lastMessageAge = 0]
    IN  CASE data.type = "move" -> handleMove(data, ps, playerId, ws)
          [] data.type = "chat" -> handleChat(data, ps, playerId)
          [] data.type = "requestChunk" -> handleRequestChunk(data, ps, playerId, ws)
          [] data.type = "placeBlock" -> handlePlaceBlock(data, ps, playerId, ws)
          [] data.type = "removeBlock" -> handleRemoveBlock(data, ps, playerId, ws)
          [] data.type = "interact" -> handleInteract(data, ps, playerId, ws)
          [] data.type = "setProfile" -> handleSetProfile(data, ps, playerId, ws)
          [] OTHER -> Rejected(ps, ws, "Unknown message type")

\* ws.on('message') for a frame that parses to the object `data`.
onMessage_IdentifyIsHandled(data, playerId, ws) ==
    LET out == handleMessage(data, playerId, ws)
    IN  IF data.type = "identify" /\ data.isAI
        THEN [out EXCEPT !.players[playerId].isAI = TRUE]
        ELSE out

onMessage(data, playerId, ws) ==
    IF data.type = "identify" /\ data.isAI
    THEN Outcome([players EXCEPT ![playerId].isAI = TRUE],
                 zonePlayers, modifications, << >>)
    ELSE handleMessage(data, playerId, ws)

Message(ws, data) ==
    /\ ~crashed
    /\ readyState[ws] = "OPEN"
    /\ LET out == onMessage(data, wsToPlayerId[ws], ws)
       IN  /\ players' = out.players
           /\ zonePlayers' = out.zonePlayers
           /\ modifications' = out.modifications
           /\ sent' = out.sent
    /\ event' = [op |-> "message", ws |-> ws, id |-> wsToPlayerId[ws], data |-> data]
    /\ UNCHANGED << playerKeys, wsToPlayerId, playerIdToWs, readyState, isAlive,
                    crashed >>

\* Frames whose text the callback cannot read: JSON.parse throws on the
\* first, and returns null for the second, so that data.type throws.
UnreadableFrames == {"{type:", "null"}

\* The 'message' callback for such a frame: the exception is thrown before
\* handleMessage is entered, and caught.
BadMessage(ws, msg) ==
    /\ ~crashed
    /\ readyState[ws] = "OPEN"
    /\ msg \in UnreadableFrames
    /\ LET out == caught(players, wsToPlayerId[ws], ws)
       IN  /\ players' = out.players
           /\ zonePlayers' = out.zonePlayers
           /\ modifications' = out.modifications
           /\ sent' = out.sent
    /\ event' = [op |-> "badMessage", ws |-> ws, id |-> wsToPlayerId[ws], msg |-> msg]
    /\ UNCHANGED << playerKeys, wsToPlayerId, playerIdToWs, readyState, isAlive,
                    crashed >>

\* Time passes: every player's Date.now() - lastMessageAt grows by ClockStep ms.
Elapse ==
    /\ ~crashed
    /\ \E id \in DOMAIN players : players[id].lastMessageAge < MIN_MESSAGE_INTERVAL
    /\ players' = [id \in DOMAIN players |->
                     [players[id] EXCEPT !.lastMessageAge =
                         Min(@ + ClockStep, MIN_MESSAGE_INTERVAL)]]
    /\ event' = [op |-> "elapse"]
    /\ sent' = << >>
    /\ UNCHANGED << playerKeys, wsToPlayerId, playerIdToWs, readyState, isAlive,
                    zonePlayers, modifications, crashed >>

\* ------------------------------------------------------------------------
\* Backend/Src/main.js: the physics loop
\* ------------------------------------------------------------------------

\* GRAVITY * dt, as a scaled velocity.
GravityStep == (GRAVITY * Scale * PHYSICS_TICK_RATE) \div 1000

\* The unstick scan: the first of the ten rows newY, newY - 1, ... whose
\* centre is not solid, or "none".
RECURSIVE UnstickScan(_, _, _, _)
UnstickScan(mods, centreX, checkY, newY) ==
    IF checkY <= newY - Tiles(10) THEN [found |-> FALSE, y |-> newY]
    ELSE IF ~isSolid(mods, centreX, checkY + Tenths(5)) THEN [found |-> TRUE, y |-> checkY]
    ELSE UnstickScan(mods, centreX, checkY - Tiles(1), newY)

\* A loop without the unstick step.
unstick_Never(mods, player, newY, velocityY, onGround) ==
    [player EXCEPT !.y = newY, !.velocityY = Num(velocityY), !.onGround = onGround]

\* The unstick step: newY, velocityY and onGround after it.
unstick(mods, player, newY, velocityY, onGround) ==
    IF isSolid(mods, player.x + Tenths(5), newY + Tenths(5))
    THEN LET scan == UnstickScan(mods, player.x + Tenths(5), newY, newY)
         IN  [player EXCEPT !.y = scan.y,
                            !.velocityY = Num(IF scan.found THEN 0 ELSE velocityY),
                            !.onGround = IF scan.found THEN FALSE ELSE onGround]
    ELSE [player EXCEPT !.y = newY, !.velocityY = Num(velocityY), !.onGround = onGround]

\* The additional ground check, then the unstick step.
groundCheck(mods, player, newY, velocityY, onGround) ==
    unstick(mods, player, newY, velocityY,
       IF /\ onGround
          /\ velocityY = 0
          /\ ~isSolid(mods, player.x + Tenths(1), newY + Tiles(1))
          /\ ~isSolid(mods, player.x + Tenths(9), newY + Tiles(1))
       THEN FALSE ELSE onGround)

\* The outcome of the collision tests: `lands` and `bonks` say whether the
\* falling player met ground and the rising player met a ceiling.
resolve(mods, player, velocityY, newY, lands, bonks) ==
    groundCheck(mods, player,
       IF lands THEN Tiles(Floor(newY + Tiles(1)) - 1)
       ELSE IF bonks THEN Tiles(Floor(newY) + 1)
       ELSE newY,
       IF lands \/ bonks THEN 0 ELSE velocityY,
       IF velocityY > 0 THEN lands ELSE player.onGround)

\* The collision tests at the candidate newY.
collide(mods, player, velocityY, newY) ==
    resolve(mods, player, velocityY, newY,
       /\ velocityY > 0
       /\ \/ isSolid(mods, player.x + Tenths(1), newY + Tiles(1))
          \/ isSolid(mods, player.x + Tenths(9), newY + Tiles(1)),
       /\ velocityY < 0
       /\ \/ isSolid(mods, player.x + Tenths(1), newY)
          \/ isSolid(mods, player.x + Tenths(9), newY))

\* The step with the velocity gravity has produced, clamped.
fall(mods, player, velocityY) ==
    collide(mods, player, velocityY,
            player.y + (velocityY * PHYSICS_TICK_RATE) \div 1000)

\* A fall that is never slowed.
clampFall_Unbounded(velocityY) == velocityY

\* The velocity gravity has produced, held at MAX_FALL_SPEED.
clampFall(velocityY) ==
    IF velocityY > Tiles(MAX_FALL_SPEED) THEN Tiles(MAX_FALL_SPEED) ELSE velocityY

\* One iteration of the loop body for one player, up to player.y = newY.
\* A velocityY that is undefined or NaN makes newY NaN, and getTile then
\* reads tiles[NaN][localX] of the generated chunk: a TypeError, thrown
\* after velocityY has been stored and before y is.
PhysicsStep(mods, player) ==
    IF player.velocityY.k # "number"
    THEN [threw |-> TRUE, player |-> [player EXCEPT !.velocityY = NaN]]
    ELSE [threw |-> FALSE,
          player |-> fall(mods, player,
                        clampFall(player.velocityY.n + GravityStep))]

\* The frames one iteration sends once player.y is stored.
PhysicsFrames(prevY, player, playerId) ==
    IF Abs(player.y - prevY) * 100 > Scale
    THEN (IF /\ playerId \in DOMAIN playerIdToWs
             /\ readyState[playerIdToWs[playerId]] = "OPEN"
          THEN << [to |-> playerIdToWs[playerId],
                   frame |-> [type |-> "positionCorrection", x |-> player.x,
                              y |-> player.y, onGround |-> player.onGround]] >>
          ELSE << >>)
         \o broadcastToZone(zonePlayers, playerIdToWs, readyState, player.zone,
               [type |-> "playerMoved", id |-> playerId, x |-> player.x, y |-> player.y],
               playerId)
    ELSE << >>

\* The setInterval callback: the loop over Object.keys(players), cut short
\* by the first exception.
RECURSIVE PhysicsLoop(_, _, _)
PhysicsLoop(keys, ps, frames) ==
    IF keys = << >> THEN [players |-> ps, sent |-> frames, threw |-> FALSE]
    ELSE LET playerId == Head(keys)
             step == PhysicsStep(modifications, ps[playerId])
             after == [ps EXCEPT ![playerId] = step.player]
         IN  IF step.threw
             THEN [players |-> after, sent |-> frames, threw |-> TRUE]
             ELSE PhysicsLoop(Tail(keys), after,
                     frames \o PhysicsFrames(ps[playerId].y, step.player, playerId))

\* One physics tick.  An exception that leaves the callback is uncaught and
\* ends the process.
TickUnder(ceiling) ==
    /\ ~crashed
    /\ \A id \in DOMAIN players : players[id].y > -Tiles(ceiling)
    /\ LET out == PhysicsLoop(playerKeys, players, << >>)
       IN  /\ players' = out.players
           /\ sent' = out.sent
           /\ crashed' = out.threw
    /\ event' = [op |-> "tick"]
    /\ UNCHANGED << playerKeys, wsToPlayerId, playerIdToWs, readyState, isAlive,
                    zonePlayers, modifications >>

\* The ticks of a model in which no player is followed above SkyLimit.
Tick == TickUnder(SkyLimit)

\* ------------------------------------------------------------------------
\* Backend/Src/main.js: the heartbeat
\* ------------------------------------------------------------------------

\* A heartbeat that finds every socket dead.
staleSocket_Always(alive, ws) == TRUE

\* A heartbeat that finds every socket alive.
staleSocket_Never(alive, ws) == FALSE

\* ws.isAlive === false
staleSocket(alive, ws) == alive[ws] = FALSE

\* wss.clients: the sockets the server holds, those whose 'close' event is
\* still pending included.
clients == {ws \in Sockets : readyState[ws] \in {"OPEN", "CLOSING"}}

\* One heartbeat cycle: a socket that has not answered the previous ping is
\* terminated, which leaves its 'close' event pending; every other socket
\* is marked and pinged.
Heartbeat ==
    /\ ~crashed
    /\ readyState' = [ws \in Sockets |->
                        IF ws \in clients /\ staleSocket(isAlive, ws)
                        THEN "CLOSING" ELSE readyState[ws]]
    /\ isAlive' = [ws \in Sockets |->
                     IF ws \in clients /\ ~staleSocket(isAlive, ws)
                     THEN FALSE ELSE isAlive[ws]]
    /\ event' = [op |-> "heartbeat"]
    /\ sent' = << >>
    /\ UNCHANGED << players, playerKeys, wsToPlayerId, playerIdToWs, zonePlayers,
                    modifications, crashed >>

\* ws.on('pong'): the peer has answered a ping.
Pong(ws) ==
    /\ ~crashed
    /\ readyState[ws] = "OPEN"
    /\ isAlive' = [isAlive EXCEPT ![ws] = TRUE]
    /\ event' = [op |-> "pong", ws |-> ws]
    /\ sent' = << >>
    /\ UNCHANGED << players, playerKeys, wsToPlayerId, playerIdToWs, readyState,
                    zonePlayers, modifications, crashed >>

\* ------------------------------------------------------------------------
\* The messages clients send
\* ------------------------------------------------------------------------

MoveData(x, y, jump) == [type |-> "move", x |-> x, y |-> y, jump |-> jump]

ChatData(message) == [type |-> "chat", message |-> message]

PlaceBlockData(x, y, tile) == [type |-> "placeBlock", x |-> x, y |-> y, tile |-> tile]

RemoveBlockData(x, y) == [type |-> "removeBlock", x |-> x, y |-> y]

Text(s) == [k |-> "string", s |-> s]

\* The moves of Spec: to x = 1.5, against the tree of column 2, with a jump;
\* to x = 20 with a y of 3; and to x = 40.025.
MoveInputs ==
    { MoveData(Num(Tiles(1) + Tenths(5)), Undefined, TRUE),
      MoveData(Num(Tiles(20)), Num(Tiles(3)), FALSE),
      MoveData(Num(Tiles(40) + 1), Undefined, FALSE) }

ChatInputs == { ChatData(Text(<< "h", "i" >>)), ChatData(Text(<< " ", "^A" >>)) }

MoveMessage == \E ws \in Sockets, data \in MoveInputs : Message(ws, data)

ChatMessage == \E ws \in Sockets, data \in ChatInputs : Message(ws, data)

\* The block messages of SpecWorld.  The cells: (0, -5), the grass the
\* spawn point stands on, and (1, -6), the air beside the spawn point.  The
\* tiles: 0, 7, -1, 8 and 1.5.
BlockCells == { << 0, -5 >>, << 1, -6 >> }

TileInputs ==
    { Num(Tiles(0)), Num(Tiles(7)), Num(Tiles(-1)), Num(Tiles(8)),
      Num(Tiles(1) + Tenths(5)) }

PlaceBlockInputs ==
    { PlaceBlockData(Num(Tiles(c[1])), Num(Tiles(c[2])), t) :
         c \in BlockCells, t \in TileInputs }
    \cup { PlaceBlockData(Num(Tenths(5)), Num(Tiles(-6)), Num(Tiles(7))) }

\* The removals: of the two cells, of x = 0.5, and of (12, -6), which is
\* out of reach of a player at x = 0 or x = 1.
RemoveBlockInputs ==
    { RemoveBlockData(Num(Tiles(c[1])), Num(Tiles(c[2]))) : c \in BlockCells }
    \cup { RemoveBlockData(Num(Tenths(5)), Num(Tiles(-6))),
           RemoveBlockData(Num(Tiles(12)), Num(Tiles(-6))) }

\* The move of SpecWorld: to x = 1.
WorldMoveInputs == { MoveData(Num(Tiles(1)), Undefined, FALSE) }

\* The requestChunk, interact, setProfile and identify messages.
RequestChunkData(chunkX, chunkY) ==
    [type |-> "requestChunk", chunkX |-> chunkX, chunkY |-> chunkY]

InteractData(target, action) == [type |-> "interact", target |-> target, action |-> action]

\* {"type": "interact", "target": {"toString": null}, "action": "use"}
InteractOpaque ==
    [type |-> "interact", target |-> TRUE, action |-> TRUE, opaque |-> TRUE]

\* A JSON object without a type field: data.type is undefined, which no
\* case of the switch matches, as for the type "undefined".
TypelessData == [type |-> "undefined"]

SetProfileData(name, validColor, color) ==
    [type |-> "setProfile", name |-> name, validColor |-> validColor, color |-> color]

IdentifyData(isAI) == [type |-> "identify", isAI |-> isAI]

\* The chunk request of SpecWorld: the chunk that holds both cells.
WorldRequestInputs == { RequestChunkData(Num(Tiles(0)), Num(Tiles(-1))) }

PlaceBlockMessage == \E ws \in Sockets, data \in PlaceBlockInputs : Message(ws, data)

WorldRequestMessage == \E ws \in Sockets, data \in WorldRequestInputs : Message(ws, data)

RemoveBlockMessage == \E ws \in Sockets, data \in RemoveBlockInputs : Message(ws, data)

WorldMoveMessage == \E ws \in Sockets, data \in WorldMoveInputs : Message(ws, data)

Next ==
    \/ \E ws \in Sockets : Connect(ws)
    \/ \E ws \in Sockets : Disconnect(ws)
    \/ \E ws \in Sockets : Close(ws)
    \/ Elapse
    \/ Tick
    \/ MoveMessage
    \/ ChatMessage

Spec == Init /\ [][Next]_vars

\* The world store under block messages: the sessions, the clock, the
\* physics loop, one move, the placeBlock and removeBlock messages, and the
\* request for the chunk they write in.
NextWorld ==
    \/ \E ws \in Sockets : Connect(ws)
    \/ \E ws \in Sockets : Disconnect(ws)
    \/ \E ws \in Sockets : Close(ws)
    \/ Elapse
    \/ Tick
    \/ WorldMoveMessage
    \/ PlaceBlockMessage
    \/ RemoveBlockMessage
    \/ WorldRequestMessage

SpecWorld == Init /\ [][NextWorld]_vars

\* The messages of SpecGate: one of every type the server knows, an
\* identify, and one of a type it does not know.
GateInputs ==
    { MoveData(Num(Tiles(1)), Undefined, FALSE),
      ChatData(Text(<< "h", "i" >>)),
      RequestChunkData(Num(Tiles(0)), Num(Tiles(-1))),
      PlaceBlockData(Num(Tiles(1)), Num(Tiles(-6)), Num(Tiles(LEAVES))),
      RemoveBlockData(Num(Tiles(1)), Num(Tiles(-6))),
      InteractData(TRUE, TRUE),
      SetProfileData("Ada", FALSE, ""),
      IdentifyData(TRUE),
      [type |-> "dance"] }

\* Messages the handlers refuse: a move without x and one beyond the delta
\* limit, both with a jump; a chunk request with a fractional coordinate
\* and one beyond the radius; a placeBlock with tile 8; a placeBlock and a
\* removeBlock beyond every range; an interact without target; an object
\* without a type.
RefusedInputs ==
    { MoveData(Undefined, Undefined, TRUE),
      MoveData(Num(Tiles(40)), Undefined, TRUE),
      RequestChunkData(Num(Tenths(5)), Num(Tiles(-1))),
      RequestChunkData(Num(Tiles(9)), Num(Tiles(-1))),
      PlaceBlockData(Num(Tiles(1)), Num(Tiles(-6)), Num(Tiles(8))),
      PlaceBlockData(Num(Tiles(60)), Num(Tiles(-6)), Num(Tiles(LEAVES))),
      RemoveBlockData(Num(Tiles(60)), Num(Tiles(-6))),
      InteractData(FALSE, TRUE),
      TypelessData }

\* Frames whose handling throws: the two unreadable texts, as BadMessage,
\* and the interact whose log line throws inside handleInteract.
ThrowingMessage ==
    \E ws \in Sockets :
        \/ \E msg \in UnreadableFrames : BadMessage(ws, msg)
        \/ Message(ws, InteractOpaque)

GateMessage == \E ws \in Sockets, data \in GateInputs : Message(ws, data)

RefusedMessage == \E ws \in Sockets, data \in RefusedInputs : Message(ws, data)

\* The perimeter: the sessions, the clock, and a message of every type.
NextGate ==
    \/ \E ws \in Sockets : Connect(ws)
    \/ \E ws \in Sockets : Disconnect(ws)
    \/ \E ws \in Sockets : Close(ws)
    \/ Elapse
    \/ GateMessage
    \/ RefusedMessage
    \/ ThrowingMessage

SpecGate == Init /\ [][NextGate]_vars

\* The messages of SpecPhysics: a jump on the spot.
JumpInputs == { MoveData(Num(Tiles(0)), Undefined, TRUE) }

JumpMessage == \E data \in JumpInputs : Message(1, data)

\* A whole flight: one session, the clock, the ticks, and jump requests at
\* any moment of the flight.  A jump carries the player about 1300 tiles
\* up, and the ticks follow it all the way up and down again.
NextPhysics ==
    \/ Connect(1)
    \/ Elapse
    \/ TickUnder(FlightLimit)
    \/ JumpMessage

SpecPhysics == Init /\ [][NextPhysics]_vars

\* The same steps with the timer of setInterval: a tick that stays due is
\* run.
SpecPhysicsFair == SpecPhysics /\ WF_vars(TickUnder(FlightLimit))

\* The physics loop over a world that changes: one session, which may
\* identify as an agent, step half a tile to the right, jump, put a block
\* where its first tick of flight ends (row -20), put one in its own cell
\* (row -6) and take away the grass under its feet (row -5). A flight that
\* meets no block is followed up to SkyLimit.
TerrainInputs ==
    { IdentifyData(TRUE),
      MoveData(Num(Tenths(5)), Undefined, FALSE),
      MoveData(Num(Tiles(0)), Undefined, TRUE),
      PlaceBlockData(Num(Tiles(0)), Num(Tiles(-20)), Num(Tiles(STONE))),
      PlaceBlockData(Num(Tiles(0)), Num(Tiles(-6)), Num(Tiles(STONE))),
      RemoveBlockData(Num(Tiles(0)), Num(Tiles(-5))) }

TerrainMessage == \E data \in TerrainInputs : Message(1, data)

NextTerrain ==
    \/ Connect(1)
    \/ Elapse
    \/ Tick
    \/ TerrainMessage

SpecTerrain == Init /\ [][NextTerrain]_vars

\* The messages of SpecChunk: a walk from chunk column 0 to chunk column
\* -1, and requests for chunks at distances 4 to 7 from either, along each
\* axis and along both.
ChunkMoveInputs == { MoveData(Num(Tiles(-20)), Undefined, FALSE) }

RequestedChunks ==
    { << 5, -1 >>, << 6, -1 >>, << -6, -1 >>, << -7, -1 >>,
      << 0, 4 >>, << 0, 5 >>, << 0, -6 >>, << 0, -7 >>, << 4, 4 >>, << -6, 5 >> }

RequestChunkInputs ==
    { RequestChunkData(Num(Tiles(c[1])), Num(Tiles(c[2]))) : c \in RequestedChunks }

ChunkMoveMessage == \E ws \in Sockets, data \in ChunkMoveInputs : Message(ws, data)

RequestChunkMessage == \E ws \in Sockets, data \in RequestChunkInputs : Message(ws, data)

\* The chunk service: sessions that walk and ask for chunks.
NextChunk ==
    \/ \E ws \in Sockets : Connect(ws)
    \/ \E ws \in Sockets : Disconnect(ws)
    \/ \E ws \in Sockets : Close(ws)
    \/ Elapse
    \/ ChunkMoveMessage
    \/ RequestChunkMessage

SpecChunk == Init /\ [][NextChunk]_vars

\* The messages of SpecReach: a player who may walk from x = 0 to x = 19.5,
\* which rounds to 20, and may identify as an agent edits cells that lie 10,
\* 11, 50 and 51 tiles away along either axis.
ReachMoveInputs == { MoveData(Num(Tiles(19) + Tenths(5)), Undefined, FALSE) }

ReachCells ==
    { << 10, -16 >>, << 11, -16 >>, << 10, -17 >>,
      << -30, -56 >>, << -31, -56 >>, << -30, -57 >> }

ReachRemoveCells == { << 10, -16 >>, << 11, -16 >>, << -30, -56 >>, << -31, -56 >> }

ReachInputs ==
    ReachMoveInputs
    \cup { IdentifyData(TRUE) }
    \cup { PlaceBlockData(Num(Tiles(c[1])), Num(Tiles(c[2])), Num(Tiles(LEAVES))) :
             c \in ReachCells }
    \cup { RemoveBlockData(Num(Tiles(c[1])), Num(Tiles(c[2]))) : c \in ReachRemoveCells }

ReachMessage == \E data \in ReachInputs : Message(1, data)

\* The reach of block edits: one session, the clock, and its messages.
NextReach ==
    \/ Connect(1)
    \/ Elapse
    \/ ReachMessage

SpecReach == Init /\ [][NextReach]_vars

\* The messages of SpecStore: a player at the spawn point, where four
\* chunks meet within reach, writes one cell in each of them, columns and
\* rows below zero included, and asks for a chunk.
StoreCells == { << -1, -7 >>, << 0, -7 >>, << -1, 0 >>, << 0, 0 >> }

StoreRemoveCells == { << -1, -7 >>, << -1, 0 >> }

StoreInputs ==
    { PlaceBlockData(Num(Tiles(c[1])), Num(Tiles(c[2])), Num(Tiles(LEAVES))) :
         c \in StoreCells }
    \cup { RemoveBlockData(Num(Tiles(c[1])), Num(Tiles(c[2]))) : c \in StoreRemoveCells }
    \cup { RequestChunkData(Num(Tiles(-1)), Num(Tiles(-1))) }

StoreMessage == \E data \in StoreInputs : Message(1, data)

\* The world store read back: one session, the clock, and its messages.
NextStore ==
    \/ Connect(1)
    \/ Elapse
    \/ StoreMessage

SpecStore == Init /\ [][NextStore]_vars

\* The sockets whose peer, once connected, is silent: it never answers a
\* ping and never closes the connection.
SilentSockets == {1}

AnswerPing == \E ws \in Sockets \ SilentSockets : Pong(ws)

PeerCloses == \E ws \in Sockets \ SilentSockets : Disconnect(ws)

\* The heartbeat: the sessions, the clock, the heartbeat cycles, the pongs
\* of the peers that answer, and the physics loop.
NextHeartbeat ==
    \/ \E ws \in Sockets : Connect(ws)
    \/ PeerCloses
    \/ \E ws \in Sockets : Close(ws)
    \/ Elapse
    \/ Heartbeat
    \/ AnswerPing
    \/ Tick

\* The interval timer keeps firing while the process runs, and a socket
\* that has left the OPEN state gets its 'close' event.
SpecHeartbeat ==
    /\ Init
    /\ [][NextHeartbeat]_vars
    /\ WF_vars(Heartbeat)
    /\ \A ws \in Sockets : WF_vars(Close(ws))

\* The inventory under calls of addItem and removeItem for the player of
\* one session. Items are named "wood", "ore" or not at all, and come in
\* quantities -1, 1, 2 or without one; removals ask for 1 or 2. Quantities
\* are followed up to MaxQuantity either side of 0.
ItemInputs ==
    { [name |-> n, type |-> "", quantity |-> q] :
         n \in {"wood", "ore"}, q \in {-1, 0, 1, 2} }
    \cup { [name |-> "", type |-> "block", quantity |-> 1] }

RemoveInputs == {"wood", "ore", ""} \X {1, 2}

AddItem(id, item) ==
    /\ ~crashed
    /\ id \in DOMAIN players
    /\ LET out == addItem(players[id], item)
       IN  /\ \A i \in DOMAIN out.player.inventory :
                 Abs(out.player.inventory[i].quantity) <= MaxQuantity
           /\ players' = [players EXCEPT ![id] = out.player]
           /\ event' = [op |-> "addItem", id |-> id, item |-> item,
                        result |-> out.result]
    /\ sent' = << >>
    /\ UNCHANGED << playerKeys, wsToPlayerId, playerIdToWs, readyState, isAlive,
                    zonePlayers, modifications, crashed >>

RemoveItem(id, itemName, quantity) ==
    /\ ~crashed
    /\ id \in DOMAIN players
    /\ LET out == removeItem(players[id], itemName, quantity)
       IN  /\ players' = [players EXCEPT ![id] = out.player]
           /\ event' = [op |-> "removeItem", id |-> id, itemName |-> itemName,
                        quantity |-> quantity, result |-> out.result]
    /\ sent' = << >>
    /\ UNCHANGED << playerKeys, wsToPlayerId, playerIdToWs, readyState, isAlive,
                    zonePlayers, modifications, crashed >>

NextInventory ==
    \/ Connect(1)
    \/ \E id \in DOMAIN players, item \in ItemInputs : AddItem(id, item)
    \/ \E id \in DOMAIN players, r \in RemoveInputs : RemoveItem(id, r[1], r[2])

SpecInventory == Init /\ [][NextInventory]_vars

\* ------------------------------------------------------------------------
\* Properties
\* ------------------------------------------------------------------------

\* The step is the handling of a message of the given type that passes the
\* rate limit: the sender's last handled message is MIN_MESSAGE_INTERVAL ms
\* old or older.
Handles(type) ==
    /\ event'.op = "message"
    /\ event'.data.type = type
    /\ players[event'.id].lastMessageAge >= MIN_MESSAGE_INTERVAL

ErrorFrame(ws, message) == [to |-> ws, frame |-> [type |-> "error", message |-> message]]

\* The zones whose member set holds the id.
ZonesOf(id) == {z \in ZoneIds : id \in zonePlayers[z]}

\* C1: after any sequence of connects, moves, ticks and closes, the id of
\* every session whose socket is open is in the member set of exactly one
\* zone, and no id is in two member sets.
C1_OneZonePerSession ==
    /\ \A ws \in Sockets :
          readyState[ws] = "OPEN" => Cardinality(ZonesOf(wsToPlayerId[ws])) = 1
    /\ \A id \in PlayerIds : Cardinality(ZonesOf(id)) <= 1

\* A move has just transferred an open session to zone_north while another
\* open session is a member of zone_central.
C1_Witness ==
    /\ event.op = "message"
    /\ \E i \in DOMAIN sent : sent[i].frame = [type |-> "zoneChanged", zone |-> "zone_north"]
    /\ event.id \in zonePlayers["zone_north"]
    /\ \E ws \in Sockets \ {event.ws} :
          readyState[ws] = "OPEN" /\ wsToPlayerId[ws] \in zonePlayers["zone_central"]

\* C2: in every reachable state each registered player's zone field is the
\* zone of its current position.
C2_ZoneMatchesPosition ==
    \A id \in DOMAIN players :
       players[id].zone = getZoneForPosition(players[id].x, players[id].y)

\* C7: a handled move whose |x - player.x| exceeds 20 is answered with the
\* error 'Movement too large' and nothing else, and leaves the player's
\* position, velocity and zone and the zone index as they were; a handled
\* move whose |x - player.x| is exactly 20 gets no error.
C7_MoveDeltaLimit ==
    [][ Handles("move") /\ IsFinite(event'.data.x) =>
          LET id == event'.id
              dx == Abs(event'.data.x.n - players[id].x)
          IN  /\ dx > Tiles(20) =>
                   /\ sent' = << ErrorFrame(event'.ws, "Movement too large") >>
                   /\ players'[id].x = players[id].x
                   /\ players'[id].y = players[id].y
                   /\ players'[id].velocityY = players[id].velocityY
                   /\ players'[id].onGround = players[id].onGround
                   /\ players'[id].zone = players[id].zone
                   /\ zonePlayers' = zonePlayers
              /\ dx = Tiles(20) =>
                   /\ \A i \in DOMAIN sent' : sent'[i].frame.type # "error"
                   /\ players'[id].lastMessageAge = 0
      ]_vars

\* A move from x = 20 to x = 40.025 has just been refused while another
\* session is open in the sender's zone.
C7_Witness ==
    /\ event.op = "message"
    /\ event.data.type = "move"
    /\ players[event.id].x = Tiles(20)
    /\ event.data.x = Num(Tiles(40) + 1)
    /\ sent = << ErrorFrame(event.ws, "Movement too large") >>
    /\ \E ws \in Sockets \ {event.ws} :
          readyState[ws] = "OPEN" /\ players[wsToPlayerId[ws]].zone = players[event.id].zone

MoveAudience ==
    {ws \in Sockets \ {event'.ws} :
        /\ readyState[ws] = "OPEN"
        /\ wsToPlayerId[ws] \in zonePlayers'[players'[event'.id].zone]}

C10_ChatStaysInZone ==
    [][ /\ Handles("chat")
        /\ event'.data.message.k = "string"
        /\ Len(StripControl(Trim(event'.data.message.s))) > 0
        => LET id == event'.id
               inZone == {ws \in Sockets : /\ readyState[ws] = "OPEN"
                                           /\ wsToPlayerId[ws] \in zonePlayers[players[id].zone]}
           IN  /\ event'.ws \in inZone
               /\ {sent'[i].to : i \in DOMAIN sent'} = inZone
               /\ Len(sent') = Cardinality(inZone)
               /\ \A i \in DOMAIN sent' :
                     /\ sent'[i].frame.type = "chatMessage"
                     /\ sent'[i].frame.id = id
                     /\ sent'[i].frame.message = StripControl(Trim(event'.data.message.s))
      ]_vars

\* A chat has reached its sender and no one else while another session is
\* open in a different zone.
C10_Witness ==
    /\ event.op = "message"
    /\ event.data.type = "chat"
    /\ Len(sent) = 1
    /\ sent[1].to = event.ws
    /\ sent[1].frame.type = "chatMessage"
    /\ \E ws \in Sockets \ {event.ws} :
          /\ readyState[ws] = "OPEN"
          /\ players[wsToPlayerId[ws]].zone # players[event.id].zone

\* ------------------------------------------------------------------------
\* Properties of the world store
\* ------------------------------------------------------------------------

\* The cells the properties read: the cells of the block messages and
\* the cells beside them.
WatchedCells == (0 .. 1) \X (-6 .. -5)

\* The cell a block message names, when its x and y are integers.
Target(data) == << Floor(data.x.n), Floor(data.y.n) >>

\* The block message is within the sender's reach: handlePlaceBlock's and
\* handleRemoveBlock's range test passes.
WithinReach(data, player) ==
    LET limit == IF player.isAI THEN 50 ELSE 10
    IN  /\ Abs(Floor(data.x.n) - Round(player.x)) <= limit
        /\ Abs(Floor(data.y.n) - Round(player.y)) <= limit

NoErrorSent == \A i \in DOMAIN sent' : sent'[i].frame.type # "error"

\* The step is a placeBlock or removeBlock message that succeeds at cell c.
WritesAt(c) ==
    /\ \/ Handles("placeBlock")
       \/ Handles("removeBlock")
    /\ IsInteger(event'.data.x)
    /\ IsInteger(event'.data.y)
    /\ Target(event'.data) = c
    /\ NoErrorSent

\* C3: a placeBlock that succeeds leaves getTile at its cell equal to its
\* tile, and the tile getTile returns at a cell changes only in a step that
\* is a successful placeBlock or removeBlock at that very cell: no write
\* elsewhere, move, tick, connect or close changes it.
C3_PlacedTilePersists ==
    [][ /\ Handles("placeBlock") /\ NoErrorSent =>
             getTile(modifications', Floor(event'.data.x.n), Floor(event'.data.y.n))
                = Floor(event'.data.tile.n)
        /\ \A c \in WatchedCells :
              getTile(modifications', c[1], c[2]) # getTile(modifications, c[1], c[2])
                 => WritesAt(c)
      ]_vars

\* A block has just been placed at (0, -5) while (1, -6), where the
\* generator has AIR, still reads as the LEAVES placed there earlier.
C3_Witness ==
    /\ event.op = "message"
    /\ event.data.type = "placeBlock"
    /\ event.data.x = Num(Tiles(0))
    /\ event.data.y = Num(Tiles(-5))
    /\ \E i \in DOMAIN sent : sent[i].frame.type = "blockUpdate"
    /\ ChunkCell(0, -1, 1, 26) = AIR
    /\ getTile(modifications, 1, -6) = LEAVES

\* C4: every override, every getTile result and every cell of a merged
\* chunk is an integer in 0..7; a placeBlock whose tile is -1, 8 or not an
\* integer writes nothing, causes no blockUpdate, and when handled is
\* answered with one error, the tile error if its x and y are integers; a
\* handled placeBlock of tile 0 or 7 at an integer cell within reach gets no
\* error, is stored, and is announced by a blockUpdate.
C4_TilesStayInRange ==
    /\ [](/\ \A k \in DOMAIN modifications : modifications[k] \in 0..7
          /\ \A c \in WatchedCells :
                /\ getTile(modifications, c[1], c[2]) \in 0..7
                /\ getModifiedChunk(modifications, c[1] \div CHUNK_SIZE, c[2] \div CHUNK_SIZE)
                      .tiles[c[2] % CHUNK_SIZE][c[1] % CHUNK_SIZE] \in 0..7)
    /\ [][ event'.op = "message" /\ event'.data.type = "placeBlock" =>
             LET data == event'.data
                 tile == data.tile
                 bad == tile.k # "number" \/ tile.n % Scale # 0
                           \/ tile.n < Tiles(0) \/ tile.n > Tiles(7)
             IN  /\ bad =>
                      /\ modifications' = modifications
                      /\ \A i \in DOMAIN sent' : sent'[i].frame.type # "blockUpdate"
                      /\ Handles("placeBlock") =>
                            /\ Len(sent') = 1
                            /\ sent'[1].to = event'.ws
                            /\ sent'[1].frame.type = "error"
                            /\ IsInteger(data.x) /\ IsInteger(data.y) =>
                                  sent'[1].frame.message
                                     = "placeBlock requires valid tile type (0-7)"
                 /\ /\ tile \in {Num(Tiles(0)), Num(Tiles(7))}
                    /\ Handles("placeBlock")
                    /\ IsInteger(data.x)
                    /\ IsInteger(data.y)
                    /\ WithinReach(data, players[event'.id])
                    => /\ NoErrorSent
                       /\ modifications'[Target(data)] = Floor(tile.n)
                       /\ \E i \in DOMAIN sent' :
                             sent'[i].frame = [type |-> "blockUpdate",
                                               x |-> Target(data)[1], y |-> Target(data)[2],
                                               tile |-> Floor(tile.n),
                                               placedBy |-> event'.id]
         ]_vars

\* A placeBlock of tile 8 at (1, -6) has just been refused with the tile
\* error while the cell holds the tile 7 an earlier placeBlock stored and
\* (0, -5) holds a placed tile 0.
C4_Witness ==
    /\ event.op = "message"
    /\ event.data = PlaceBlockData(Num(Tiles(1)), Num(Tiles(-6)), Num(Tiles(8)))
    /\ sent = << ErrorFrame(event.ws, "placeBlock requires valid tile type (0-7)") >>
    /\ ModKey(1, -6) \in DOMAIN modifications
    /\ modifications[ModKey(1, -6)] = 7
    /\ ModKey(0, -5) \in DOMAIN modifications
    /\ modifications[ModKey(0, -5)] = 0

\* C5: a handled removeBlock at an integer cell within reach leaves getTile
\* at the cell equal to AIR, whatever was placed there before and whatever
\* the generator produces there.
C5_RemoveLeavesAir ==
    [][ /\ Handles("removeBlock")
        /\ IsInteger(event'.data.x)
        /\ IsInteger(event'.data.y)
        /\ WithinReach(event'.data, players[event'.id])
        => getTile(modifications', Target(event'.data)[1], Target(event'.data)[2]) = AIR
      ]_vars

\* The block at (1, -6) has just been removed: the generator has AIR there,
\* so the block removed is one a placeBlock had stored.
C5_Witness ==
    /\ event.op = "message"
    /\ event.data = RemoveBlockData(Num(Tiles(1)), Num(Tiles(-6)))
    /\ ChunkCell(0, -1, 1, 26) = AIR
    /\ \E i \in DOMAIN sent :
          sent[i].frame = [type |-> "blockUpdate", x |-> 1, y |-> -6, tile |-> AIR,
                           placedBy |-> event.id]
    /\ getTile(modifications, 1, -6) = AIR

\* C6: a handled removeBlock at an integer cell within reach whose current
\* tile is AIR is answered with the error 'No block to remove at that
\* position' to the sender and nothing else is sent, and the override map
\* is left as it was.
C6_RemoveAirRefused ==
    [][ /\ Handles("removeBlock")
        /\ IsInteger(event'.data.x)
        /\ IsInteger(event'.data.y)
        /\ WithinReach(event'.data, players[event'.id])
        /\ getTile(modifications, Target(event'.data)[1], Target(event'.data)[2]) = AIR
        => /\ sent' = << ErrorFrame(event'.ws, "No block to remove at that position") >>
           /\ modifications' = modifications
      ]_vars

\* A removeBlock at (0, -5), where the generator has GRASS and an earlier
\* removeBlock stored AIR, has just been refused, with another session open
\* in the sender's zone.
C6_Witness ==
    /\ event.op = "message"
    /\ event.data = RemoveBlockData(Num(Tiles(0)), Num(Tiles(-5)))
    /\ sent = << ErrorFrame(event.ws, "No block to remove at that position") >>
    /\ ChunkCell(0, -1, 0, 27) = GRASS
    /\ ModKey(0, -5) \in DOMAIN modifications
    /\ modifications[ModKey(0, -5)] = AIR
    /\ \E ws \in Sockets \ {event.ws} :
          readyState[ws] = "OPEN" /\ players[wsToPlayerId[ws]].zone = players[event.id].zone

\* ------------------------------------------------------------------------
\* Properties of accept and close
\* ------------------------------------------------------------------------

\* The players other than the one just accepted in the zone it was put in,
\* and the open sessions among them.
AcceptOthers == zonePlayers[players[event.id].zone] \ {event.id}

AcceptAudience ==
    {ws \in Sockets \ {event.ws} :
        readyState[ws] = "OPEN" /\ wsToPlayerId[ws] \in AcceptOthers}

\* The first frames of an accept: the welcome to the new session, then one
\* playerJoined with the new id to every session of the audience and to no
\* one else.
AcceptOpens ==
    LET n == Cardinality(AcceptAudience)
    IN  /\ Len(sent) >= n + 1
        /\ sent[1].to = event.ws
        /\ sent[1].frame.type = "welcome"
        /\ sent[1].frame.id = event.id
        /\ sent[1].frame.zone = players[event.id].zone
        /\ \A i \in 2 .. (n + 1) :
              /\ sent[i].frame.type = "playerJoined"
              /\ sent[i].frame.id = event.id
        /\ {sent[i].to : i \in 2 .. (n + 1)} = AcceptAudience

\* The frame at position i is the existingPlayers frame to the new session
\* that lists exactly the other players of the zone, with their stored
\* name, colour and position.
ExistingPlayersAt(i) ==
    /\ Len(sent) = i
    /\ sent[i].to = event.ws
    /\ sent[i].frame.type = "existingPlayers"
    /\ Len(sent[i].frame.players) = Cardinality(AcceptOthers)
    /\ {sent[i].frame.players[j].id : j \in DOMAIN sent[i].frame.players} = AcceptOthers
    /\ \A j \in DOMAIN sent[i].frame.players :
          LET entry == sent[i].frame.players[j]
          IN  /\ entry.id \in DOMAIN players
              /\ entry.name = players[entry.id].name
              /\ entry.color = players[entry.id].color
              /\ entry.x = players[entry.id].x
              /\ entry.y = players[entry.id].y

\* C11 as stated: every accept sends, in this order, the welcome, the
\* playerJoined frames to the other open sessions of the zone, and an
\* existingPlayers frame listing exactly the other players of the zone.
C11_AcceptAlwaysListsPlayers ==
    event.op = "connection" =>
       AcceptOpens /\ ExistingPlayersAt(Cardinality(AcceptAudience) + 2)

\* C11, amended: every accept sends, in this order, the welcome to the new
\* session and a playerJoined with the new id to every other open session
\* of its zone and to no one else; when the zone holds another player it
\* then sends the new session an existingPlayers frame listing exactly the
\* other players of the zone, and when the zone holds no other player it
\* sends no existingPlayers frame.
C11_AcceptFrames ==
    event.op = "connection" =>
       /\ AcceptOpens
       /\ IF AcceptOthers = {}
          THEN Len(sent) = 1
          ELSE ExistingPlayersAt(Cardinality(AcceptAudience) + 2)

\* A session has just been accepted into a zone where another session is
\* open: welcome, one playerJoined to the other session, existingPlayers.
C11_Witness ==
    /\ event.op = "connection"
    /\ Cardinality(AcceptAudience) = 1
    /\ Len(sent) = 3
    /\ sent[2].to # event.ws
    /\ sent[3].frame.type = "existingPlayers"

\* C12: the close of a session removes its id from every zone member set,
\* from the registry and from both socket maps, and sends playerLeft with
\* the id to exactly the remaining open sessions of the zone the player
\* was last in; no frame of any callback goes to a socket that is not open,
\* so the closed session receives nothing further.
C12_CloseRemovesAndAnnounces ==
    /\ [](\A i \in DOMAIN sent : readyState[sent[i].to] = "OPEN")
    /\ [][ event'.op = "close" =>
             LET id == event'.id
                 ws == event'.ws
                 remaining == {s \in Sockets \ {ws} :
                                  /\ readyState[s] = "OPEN"
                                  /\ wsToPlayerId[s] \in zonePlayers[players[id].zone]}
             IN  /\ id \in DOMAIN players
                 /\ id \notin DOMAIN players'
                 /\ \A z \in ZoneIds : id \notin zonePlayers'[z]
                 /\ id \notin DOMAIN playerIdToWs'
                 /\ ws \notin DOMAIN wsToPlayerId'
                 /\ Len(playerKeys') = Len(playerKeys) - 1
                 /\ \A k \in DOMAIN playerKeys' : playerKeys'[k] # id
                 /\ Len(sent') = Cardinality(remaining)
                 /\ {sent'[i].to : i \in DOMAIN sent'} = remaining
                 /\ \A i \in DOMAIN sent' :
                       /\ sent'[i].frame.type = "playerLeft"
                       /\ sent'[i].frame.id = id
         ]_vars

\* A session has just closed and the other session, open in the same zone,
\* has received its playerLeft.
C12_Witness ==
    /\ event.op = "close"
    /\ Len(sent) = 1
    /\ sent[1].to # event.ws
    /\ readyState[sent[1].to] = "OPEN"
    /\ sent[1].frame.type = "playerLeft"
    /\ sent[1].frame.id = event.id
    /\ event.id \notin DOMAIN players

\* ------------------------------------------------------------------------
\* Properties of the rate limit
\* ------------------------------------------------------------------------

\* The step is a message of a session whose previous message, handled in
\* the step before with frames sent, is less than MIN_MESSAGE_INTERVAL ms
\* old.
FollowsHandledMessage ==
    /\ event.op = "message"
    /\ sent # << >>
    /\ event'.op = "message"
    /\ event'.id = event.id
    /\ players[event'.id].lastMessageAge < MIN_MESSAGE_INTERVAL

\* C13: a message of any type that arrives less than 50 ms after the
\* session's previous accepted message is dropped: nothing is sent and the
\* registry, the zone index and the world are left as they were.
C13_EarlyMessageDropped ==
    [][ FollowsHandledMessage =>
          /\ sent' = << >>
          /\ players' = players
          /\ zonePlayers' = zonePlayers
          /\ modifications' = modifications
      ]_vars

\* ------------------------------------------------------------------------
\* Properties of the vertical motion
\* ------------------------------------------------------------------------

\* C14: in every reachable state the vertical velocity of every registered
\* player that has one (it is a number from the player's first jump on) is
\* at most MAX_FALL_SPEED tiles per second.
C14_FallSpeedBounded ==
    \A id \in DOMAIN players :
       players[id].velocityY.k = "number" =>
          players[id].velocityY.n <= Tiles(MAX_FALL_SPEED)

\* A tick has just held a falling player at MAX_FALL_SPEED.
C14_Witness ==
    /\ event.op = "tick"
    /\ \E id \in DOMAIN players :
          /\ players[id].velocityY = Num(Tiles(MAX_FALL_SPEED))
          /\ ~players[id].onGround

\* C15: a message changes the sender's vertical velocity or onGround flag
\* only if it is a move with jump set and the player's onGround flag is
\* true when it is handled; a jump requested while onGround is false changes
\* neither.
C15_JumpOnlyFromGround ==
    [][ event'.op = "message" =>
          \A id \in DOMAIN players :
             \/ /\ players'[id].velocityY = players[id].velocityY
                /\ players'[id].onGround = players[id].onGround
             \/ /\ id = event'.id
                /\ event'.data.type = "move"
                /\ event'.data.jump
                /\ players[id].onGround
      ]_vars

\* A jump request was handled in mid-air, a tick after the jump from the
\* ground: the move reached the other session, and the velocity is still
\* the one the tick left.
C15_Witness ==
    /\ event.op = "message"
    /\ event.data.type = "move"
    /\ event.data.jump
    /\ \E i \in DOMAIN sent : sent[i].frame.type = "playerMoved"
    /\ ~players[event.id].onGround
    /\ players[event.id].velocityY = Num(Tiles(-280) + GravityStep)

\* C16: whenever a player's onGround flag is true, the tile directly below
\* the feet is solid at x + 0.1 or at x + 0.9.
C16_GroundedOverSolid ==
    \A id \in DOMAIN players :
       players[id].onGround =>
          \/ isSolid(modifications, players[id].x + Tenths(1), players[id].y + Tiles(1))
          \/ isSolid(modifications, players[id].x + Tenths(9), players[id].y + Tiles(1))

\* C17: a move with jump set that is handled, not refused, while the
\* player's onGround flag is true leaves the vertical velocity at
\* JUMP_VELOCITY (-14 tiles per second) and the flag false.
C17_JumpImpulse ==
    [][ ( /\ Handles("move")
          /\ event'.data.jump
          /\ players[event'.id].onGround
          /\ \A i \in DOMAIN sent' : sent'[i].frame.type # "error" ) =>
          /\ players'[event'.id].velocityY = Num(Tiles(JUMP_VELOCITY))
          /\ ~players'[event'.id].onGround
      ]_vars

\* ------------------------------------------------------------------------
\* Properties of the chunk service and of the reach of block edits
\* ------------------------------------------------------------------------

\* The Chebyshev distance, in chunks, between the requested chunk and the
\* chunk the player stands in.
RequestDistance(data, player) ==
    Max(Abs(Floor(data.chunkX.n) - player.x \div (CHUNK_SIZE * Scale)),
        Abs(Floor(data.chunkY.n) - player.y \div (CHUNK_SIZE * Scale)))

\* C18: a handled requestChunk with integer coordinates is answered with
\* one frame, to the requester: the chunkData of the requested chunk when
\* the chunk is at Chebyshev distance 5 or less from the player's chunk,
\* and an error otherwise.
C18_ChunkWithinFive ==
    [][ ( /\ Handles("requestChunk")
          /\ IsInteger(event'.data.chunkX)
          /\ IsInteger(event'.data.chunkY) ) =>
          /\ Len(sent') = 1
          /\ sent'[1].to = event'.ws
          /\ IF RequestDistance(event'.data, players[event'.id]) <= 5
             THEN /\ sent'[1].frame.type = "chunkData"
                  /\ sent'[1].frame.chunk = [x |-> Floor(event'.data.chunkX.n),
                                             y |-> Floor(event'.data.chunkY.n)]
             ELSE sent'[1] = ErrorFrame(event'.ws,
                                "Requested chunk is too far from your position")
      ]_vars

\* A player who walked to chunk column -1 was sent chunk (4, 4), at
\* distance 5 along both axes, while another session was open.
C18_Witness ==
    /\ event.op = "message"
    /\ event.data.type = "requestChunk"
    /\ players[event.id].x = Tiles(-20)
    /\ Len(sent) = 1
    /\ sent[1].to = event.ws
    /\ sent[1].frame.type = "chunkData"
    /\ sent[1].frame.chunk = [x |-> 4, y |-> 4]
    /\ \E ws \in Sockets \ {event.ws} : readyState[ws] = "OPEN"

\* C19: a handled placeBlock or removeBlock at an integer cell changes the
\* world only if the cell is within the sender's reach, 10 tiles along
\* both axes from the rounded position, 50 for an identified agent; a
\* request beyond the reach is answered with one error frame, to the
\* sender, and leaves the world as it was.
C19_EditsWithinReach ==
    [][ ( /\ \/ Handles("placeBlock")
             \/ Handles("removeBlock")
          /\ IsInteger(event'.data.x)
          /\ IsInteger(event'.data.y) ) =>
          \/ WithinReach(event'.data, players[event'.id])
          \/ /\ modifications' = modifications
             /\ Len(sent') = 1
             /\ sent'[1].to = event'.ws
             /\ sent'[1].frame.type = "error"
      ]_vars

\* An identified agent at x = 19.5 was refused the cell 51 tiles to the
\* west after it had placed a block 50 tiles away along both axes.
C19_Witness ==
    /\ event.op = "message"
    /\ event.data.type = "placeBlock"
    /\ Target(event.data) = << -31, -56 >>
    /\ players[event.id].x = Tiles(19) + Tenths(5)
    /\ players[event.id].isAI
    /\ sent = << ErrorFrame(event.ws, "Block placement too far from your position") >>
    /\ DOMAIN modifications = { << -30, -56 >> }

\* ------------------------------------------------------------------------
\* Properties of the propagation of block edits
\* ------------------------------------------------------------------------

\* The chunks a welcome or chunkData frame carries.
FrameChunks(frame) ==
    IF frame.type = "welcome" THEN frame.chunks
    ELSE IF frame.type = "chunkData" THEN { << frame.chunk.x, frame.chunk.y >> }
    ELSE {}

\* The tile the frame shows at cell c of the chunk that holds c.
FrameTile(frame, c) ==
    getModifiedChunk(frame.mods, c[1] \div CHUNK_SIZE, c[2] \div CHUNK_SIZE)
       .tiles[c[2] % CHUNK_SIZE][c[1] % CHUNK_SIZE]

\* The open sessions whose player is in the zone.
ZoneAudience(zoneId) ==
    {ws \in Sockets : /\ readyState[ws] = "OPEN"
                      /\ ws \in DOMAIN wsToPlayerId
                      /\ wsToPlayerId[ws] \in zonePlayers[zoneId]}

\* C20: a placeBlock that succeeds sends a blockUpdate with its x, y, tile
\* and placedBy set to the sender's id to every open session of the
\* sender's zone, the sender included, and to no one else; and every
\* welcome or chunkData frame, whoever it is sent to, shows at every written
\* cell it covers the tile last written there.
C20_EditsReachEveryView ==
    /\ [](\A i \in DOMAIN sent : \A c \in DOMAIN modifications :
             << c[1] \div CHUNK_SIZE, c[2] \div CHUNK_SIZE >> \in FrameChunks(sent[i].frame)
                => FrameTile(sent[i].frame, c) = modifications[c])
    /\ [][ (Handles("placeBlock") /\ NoErrorSent) =>
             /\ {sent'[i].to : i \in DOMAIN sent'} = ZoneAudience(players[event'.id].zone)
             /\ Len(sent') = Cardinality(ZoneAudience(players[event'.id].zone))
             /\ \A i \in DOMAIN sent' :
                   sent'[i].frame = [type |-> "blockUpdate",
                                     x |-> Floor(event'.data.x.n),
                                     y |-> Floor(event'.data.y.n),
                                     tile |-> Floor(event'.data.tile.n),
                                     placedBy |-> event'.id]
         ]_vars

\* A session that connected after LEAVES were placed at (1, -6), where the
\* generator has AIR, is welcomed with chunks that show LEAVES there.
C20_Witness ==
    /\ event.op = "connection"
    /\ sent[1].frame.type = "welcome"
    /\ << 1, -6 >> \in DOMAIN modifications
    /\ modifications[<< 1, -6 >>] = LEAVES
    /\ ChunkCell(0, -1, 1, 26) = AIR
    /\ << 0, -1 >> \in FrameChunks(sent[1].frame)
    /\ FrameTile(sent[1].frame, << 1, -6 >>) = LEAVES

\* ------------------------------------------------------------------------
\* Properties of the world store read back
\* ------------------------------------------------------------------------

\* The chunks that meet at the spawn point, and the cells they hold.
StoreChunks == (-1 .. 0) \X (-1 .. 0)

StoreWindow == (-CHUNK_SIZE .. CHUNK_SIZE - 1) \X (-CHUNK_SIZE .. CHUNK_SIZE - 1)

LocalCells == (0 .. CHUNK_SIZE - 1) \X (0 .. CHUNK_SIZE - 1)

\* The chunk with the tile written over one cell, when the cell is inside.
Reapplied(chunk, c, tile) ==
    IF /\ c[1] \div CHUNK_SIZE = chunk.x
       /\ c[2] \div CHUNK_SIZE = chunk.y
    THEN [chunk EXCEPT !.tiles[c[2] % CHUNK_SIZE][c[1] % CHUNK_SIZE] = tile]
    ELSE chunk

\* The step is a placeBlock or removeBlock message that succeeds.
Mutates ==
    /\ \/ Handles("placeBlock")
       \/ Handles("removeBlock")
    /\ NoErrorSent

MutationTile == IF event'.data.type = "placeBlock" THEN Floor(event'.data.tile.n) ELSE AIR

\* C21: the merged chunk is the generated chunk while nothing is written,
\* every successful mutation changes it exactly as applying that mutation
\* to it does, and nothing else changes it: so it is the generated chunk
\* with the mutations re-applied in order; and each of its cells [ly][lx]
\* is getTile(cx * 32 + lx, cy * 32 + ly), in chunks with negative
\* coordinates too.
C21_MergedChunkIsReplay ==
    /\ [](\A k \in StoreChunks :
            /\ modifications = << >> =>
                  getModifiedChunk(modifications, k[1], k[2]) = generateChunk(k[1], k[2])
            /\ \A l \in LocalCells :
                  getModifiedChunk(modifications, k[1], k[2]).tiles[l[2]][l[1]]
                     = getTile(modifications, k[1] * CHUNK_SIZE + l[1],
                                              k[2] * CHUNK_SIZE + l[2]))
    /\ [][ \A k \in StoreChunks :
             getModifiedChunk(modifications', k[1], k[2])
                = IF Mutates
                  THEN Reapplied(getModifiedChunk(modifications, k[1], k[2]),
                                 Target(event'.data), MutationTile)
                  ELSE getModifiedChunk(modifications, k[1], k[2])
         ]_vars

\* LEAVES were placed at (-1, -7) and removed again, and a block was placed
\* at (-1, 0): the live merged read of chunk (-1, -1) then shows AIR over
\* the first cell, which still has an override.
C21_Witness ==
    /\ event.op = "message"
    /\ event.data.type = "placeBlock"
    /\ Target(event.data) = << -1, 0 >>
    /\ DOMAIN modifications = { << -1, -7 >>, << -1, 0 >> }
    /\ modifications[<< -1, -7 >>] = AIR
    /\ getModifiedChunk(modifications, -1, -1).tiles[25][31] = AIR
    /\ getModifiedChunk(modifications, -1, 0).tiles[0][31] = LEAVES
    /\ generateChunk(-1, 0).tiles[0][31] # LEAVES

\* C23: at every cell without an override, negative coordinates included,
\* getTile returns the cell at local row y mod 32 and local column x mod 32
\* (remainders that are not negative) of the chunk generated for
\* (floor(x / 32), floor(y / 32)).
C23_GetTileReadsGenerated ==
    \A c \in StoreWindow :
       c \notin DOMAIN modifications =>
          getTile(modifications, c[1], c[2])
             = generateChunk(c[1] \div CHUNK_SIZE, c[2] \div CHUNK_SIZE)
                  .tiles[c[2] % CHUNK_SIZE][c[1] % CHUNK_SIZE]

\* handleRemoveBlock has read getTile(-1, -7), a cell without override in
\* chunk (-1, -1), found the generated AIR there and refused, while the
\* cell below ground at (-1, 0) holds LEAVES in place of the generated tile.
C23_Witness ==
    /\ event.op = "message"
    /\ event.data.type = "removeBlock"
    /\ Target(event.data) = << -1, -7 >>
    /\ sent = << ErrorFrame(event.ws, "No block to remove at that position") >>
    /\ << -1, -7 >> \notin DOMAIN modifications
    /\ << -1, 0 >> \in DOMAIN modifications
    /\ generateChunk(-1, -1).tiles[25][31] = AIR
    /\ generateChunk(-1, 0).tiles[0][31] \in SOLID_TILES

\* The chunk of the requests and of the first written cell, and the chunk
\* below ground across the origin from it.
GeneratedChunks == { << -1, -1 >>, << 0, 0 >> }

OpenIn(zoneId) ==
    {ws \in Sockets : /\ readyState[ws] = "OPEN"
                      /\ ws \in DOMAIN wsToPlayerId
                      /\ wsToPlayerId[ws] \in zonePlayers'[zoneId]}

TransferTypes == {"playerLeft", "playerJoined", "zoneChanged"}

\* The frames of a transfer of the mover from oldZone to newZone: playerLeft
\* to the old zone, playerJoined to the new zone without the mover,
\* zoneChanged to the mover, and none of the three after them.
TransferFrames(oldZone, newZone) ==
    LET left == Cardinality(OpenIn(oldZone))
        joined == Cardinality(OpenIn(newZone) \ {event'.ws})
    IN  /\ Len(sent') >= left + joined + 1
        /\ {sent'[i].to : i \in 1 .. left} = OpenIn(oldZone)
        /\ \A i \in 1 .. left :
              sent'[i].frame = [type |-> "playerLeft", id |-> event'.id]
        /\ {sent'[i].to : i \in (left + 1) .. (left + joined)}
              = OpenIn(newZone) \ {event'.ws}
        /\ \A i \in (left + 1) .. (left + joined) :
              sent'[i].frame = [type |-> "playerJoined", id |-> event'.id,
                                x |-> players'[event'.id].x, y |-> players'[event'.id].y]
        /\ sent'[left + joined + 1] =
              [to |-> event'.ws, frame |-> [type |-> "zoneChanged", zone |-> newZone]]
        /\ \A i \in (left + joined + 2) .. Len(sent') :
              sent'[i].frame.type \notin TransferTypes

\* C24: a handled move that is not refused and leaves the player at a
\* position whose zone is not the player's current zone moves the id from
\* the old zone's member set to the new one, stores the new zone, and sends
\* playerLeft to the old zone, then playerJoined to the new zone without
\* the mover, then zoneChanged to the mover; a move that leaves the zone
\* unchanged changes no member set and sends none of the three.
C24_ZoneTransfer ==
    [][ (Handles("move") /\ NoErrorSent) =>
          LET id == event'.id
              oldZone == players[id].zone
              newZone == getZoneForPosition(players'[id].x, players'[id].y)
          IN  IF newZone # oldZone
              THEN /\ players'[id].zone = newZone
                   /\ zonePlayers' = [zonePlayers EXCEPT ![oldZone] = @ \ {id},
                                                         ![newZone] = @ \cup {id}]
                   /\ TransferFrames(oldZone, newZone)
              ELSE /\ players'[id].zone = oldZone
                   /\ zonePlayers' = zonePlayers
                   /\ \A i \in DOMAIN sent' : sent'[i].frame.type \notin TransferTypes
      ]_vars

\* A player has followed another into zone_north: the other session was
\* sent playerJoined and the mover zoneChanged.
C24_Witness ==
    /\ event.op = "message"
    /\ event.data.type = "move"
    /\ players[event.id].zone = "zone_north"
    /\ \E i \in DOMAIN sent :
          /\ sent[i].to # event.ws
          /\ sent[i].frame.type = "playerJoined"
          /\ sent[i + 1] = [to |-> event.ws,
                            frame |-> [type |-> "zoneChanged", zone |-> "zone_north"]]

\* ------------------------------------------------------------------------
\* Properties of the heartbeat
\* ------------------------------------------------------------------------

C26_RefusalChangesNothing ==
    [][ ( /\ event'.op = "message"
          /\ \E i \in DOMAIN sent' : sent'[i].frame.type = "error" ) =>
          /\ Len(sent') = 1
          /\ sent'[1].to = event'.ws
          /\ players' = [players EXCEPT ![event'.id].lastMessageAge = 0]
          /\ modifications' = modifications
          /\ zonePlayers' = zonePlayers
      ]_vars

\* A move with a jump, 39 tiles or more beyond the player's x, was refused
\* while another session was open in the zone: the player is still on the
\* ground.
C26_Witness ==
    /\ event.op = "message"
    /\ event.data = MoveData(Num(Tiles(40)), Undefined, TRUE)
    /\ sent = << ErrorFrame(event.ws, "Movement too large") >>
    /\ players[event.id].onGround
    /\ \E ws \in Sockets \ {event.ws} :
          /\ readyState[ws] = "OPEN"
          /\ players[wsToPlayerId[ws]].zone = players[event.id].zone

\* The session of the last event is open and registered as it was before
\* the step: its later messages reach the handlers.
StaysConnected ==
    /\ readyState' = readyState
    /\ wsToPlayerId' = wsToPlayerId
    /\ playerIdToWs' = playerIdToWs
    /\ readyState'[event'.ws] = "OPEN"
    /\ event'.id \in DOMAIN players'

WorldAndZonesKept ==
    /\ modifications' = modifications
    /\ zonePlayers' = zonePlayers

\* C27 as stated: a frame that is not valid JSON, and a JSON object without
\* a type field, are dropped: nothing is sent, nothing changes, and the
\* connection stays open.
C27_BadFrameDropped ==
    [][ ( \/ event'.op = "badMessage"
          \/ event'.op = "message" /\ event'.data = TypelessData ) =>
          /\ sent' = << >>
          /\ players' = players
          /\ WorldAndZonesKept
          /\ StaysConnected
      ]_vars

\* C27, amended: a frame that is not valid JSON is dropped: nothing is
\* sent, nothing changes, and the connection stays open. A JSON object
\* without a type field is handled as a message of unknown type: less than
\* MIN_MESSAGE_INTERVAL ms after the session's last handled message it is
\* dropped in the same way; otherwise the sender is sent one error frame
\* and the time of its last handled message is set. Nothing else changes
\* and the connection stays open.
C27_BadFrameHandling ==
    [][ /\ event'.op = "badMessage" =>
            /\ sent' = << >>
            /\ players' = players
            /\ WorldAndZonesKept
            /\ StaysConnected
        /\ event'.op = "message" /\ event'.data = TypelessData =>
            /\ IF players[event'.id].lastMessageAge < MIN_MESSAGE_INTERVAL
               THEN sent' = << >> /\ players' = players
               ELSE /\ sent' = << ErrorFrame(event'.ws, "Unknown message type") >>
                    /\ players' = [players EXCEPT ![event'.id].lastMessageAge = 0]
            /\ WorldAndZonesKept
            /\ StaysConnected
      ]_vars

\* A frame that is not JSON has just been dropped on a session that a
\* second open session shares the zone with.
C27_Witness ==
    /\ event.op = "badMessage"
    /\ event.msg = "{type:"
    /\ sent = << >>
    /\ readyState[event.ws] = "OPEN"
    /\ \E ws \in Sockets \ {event.ws} :
          /\ readyState[ws] = "OPEN"
          /\ players[wsToPlayerId[ws]].zone = players[event.id].zone

\* The step handles a frame whose handling throws: an unreadable text, or
\* the interact whose log line throws, past the rate limit.
Throws ==
    \/ event'.op = "badMessage"
    \/ /\ event'.op = "message"
       /\ event'.data = InteractOpaque
       /\ players[event'.id].lastMessageAge >= MIN_MESSAGE_INTERVAL

OthersKept ==
    /\ DOMAIN players' = DOMAIN players
    /\ \A id \in DOMAIN players \ {event'.id} : players'[id] = players[id]
    /\ WorldAndZonesKept
    /\ isAlive' = isAlive

\* C28 as stated: when the handling of a session's message throws, that
\* session's connection is torn down, and every other session stays
\* connected with its state unchanged.
C28_ThrowTearsDown ==
    [][ Throws =>
          /\ readyState'[event'.ws] \in {"CLOSING", "NONE"}
          /\ \A ws \in Sockets \ {event'.ws} : readyState'[ws] = readyState[ws]
          /\ OthersKept
      ]_vars

\* C28, amended: when the handling of a session's message throws, the
\* exception is caught and the frame is dropped without a reply; the
\* session stays open and registered, with its player as it was but for
\* the time of its last handled message; every other session stays
\* connected with its state unchanged, and so do the world and the zones.
C28_ThrowIsCaught ==
    [][ Throws =>
          /\ sent' = << >>
          /\ StaysConnected
          /\ \E age \in {0, players[event'.id].lastMessageAge} :
                players'[event'.id] = [players[event'.id] EXCEPT !.lastMessageAge = age]
          /\ OthersKept
      ]_vars

\* The frame "null" has just been dropped: its session is still open, and
\* so is a second one in the same zone.
C28_Witness ==
    /\ event.op = "badMessage"
    /\ event.msg = "null"
    /\ readyState[event.ws] = "OPEN"
    /\ wsToPlayerId[event.ws] = event.id
    /\ \E ws \in Sockets \ {event.ws} :
          /\ readyState[ws] = "OPEN"
          /\ players[wsToPlayerId[ws]].zone = players[event.id].zone

\* C29: no sequence of connections, messages, closes, heartbeat cycles and
\* physics ticks makes a callback throw an exception that nothing catches
\* and that ends the process.
C29_ProcessKeepsRunning == ~crashed

\* ------------------------------------------------------------------------
\* Properties of identify
\* ------------------------------------------------------------------------

\* C30: an identify message with isAI true sets the sender's isAI and
\* changes nothing else, the time of the sender's last handled message
\* included; nothing is sent to anyone; and a player's isAI, once true,
\* stays true for as long as the player is in the registry.
C30_IdentifySetsFlagOnly ==
    [][ /\ ( event'.op = "message" /\ event'.data = IdentifyData(TRUE) ) =>
            /\ players' = [players EXCEPT ![event'.id].isAI = TRUE]
            /\ sent' = << >>
            /\ WorldAndZonesKept
            /\ StaysConnected
            /\ isAlive' = isAlive
        /\ \A id \in DOMAIN players \cap DOMAIN players' :
              players[id].isAI => players'[id].isAI
      ]_vars

\* An identify has just been handled for one of two open sessions of a
\* zone: its player is an agent, the other player is not.
C30_Witness ==
    /\ event.op = "message"
    /\ event.data = IdentifyData(TRUE)
    /\ players[event.id].isAI
    /\ sent = << >>
    /\ \E ws \in Sockets \ {event.ws} :
          /\ readyState[ws] = "OPEN"
          /\ players[wsToPlayerId[ws]].zone = players[event.id].zone
          /\ ~players[wsToPlayerId[ws]].isAI

\* ------------------------------------------------------------------------
\* Properties of the spawn and of the physics loop
\* ------------------------------------------------------------------------

\* C31: a player that has just been accepted stands in the first row of
\* its spawn column, from row -20 down, that is not solid over a solid
\* row, with onGround true and a vertical velocity of 0.
C31_SpawnedAtRest ==
    event.op = "connection" =>
        LET player == players[event.id]
            spawnX == Round(player.x)
            row == player.y \div Scale
        IN  /\ player.y = Tiles(row)
            /\ getTile(modifications, spawnX, row) \notin SOLID_TILES
            /\ getTile(modifications, spawnX, row + 1) \in SOLID_TILES
            /\ \A y \in -20 .. row - 1 :
                  ~ ( /\ getTile(modifications, spawnX, y) \notin SOLID_TILES
                      /\ getTile(modifications, spawnX, y + 1) \in SOLID_TILES )
            /\ player.onGround
            /\ player.velocityY = Num(0)

\* The centre of the player's cell is inside a solid tile.
Buried(player) == isSolid(modifications, player.x + Tenths(5), player.y + Tenths(5))

\* C32: every accept is followed by a physics tick that the process
\* survives and after which the accepted player is on the ground or has
\* its centre outside the solid tiles.
C32_SpawnedSettlesOrFalls ==
    \A id \in PlayerIds :
        (event.op = "connection" /\ event.id = id)
            ~> ( /\ event.op = "tick"
                 /\ ~crashed
                 /\ id \in DOMAIN players
                 /\ (players[id].onGround \/ ~Buried(players[id])) )

\* Every registered player is at rest on the ground.
AtRest ==
    \A id \in DOMAIN players :
        players[id].onGround /\ players[id].velocityY = Num(0)

\* C33: once the messages have stopped, the ticks bring every player to
\* rest for good: from some tick on each tick ends with onGround true and
\* velocityY 0, and sends no frame.
C33_ComesToRest ==
    <>[](event.op # "message") =>
        <>[](AtRest /\ (event.op = "tick" => sent = << >>))

\* ------------------------------------------------------------------------
\* Properties of the registry
\* ------------------------------------------------------------------------

\* The sockets of the sessions: accepted, and their 'close' event not yet
\* handled.
Sessions == {ws \in Sockets : readyState[ws] # "NONE"}

RegistryMatchesSessions ==
    /\ DOMAIN wsToPlayerId = Sessions
    /\ DOMAIN playerIdToWs = DOMAIN players
    /\ Cardinality(DOMAIN players) = Cardinality(Sessions)
    /\ \A ws \in Sessions :
          /\ wsToPlayerId[ws] \in DOMAIN players
          /\ playerIdToWs[wsToPlayerId[ws]] = ws
    /\ \A id \in DOMAIN players :
          /\ players[id].id = id
          /\ wsToPlayerId[playerIdToWs[id]] = id
    /\ Len(playerKeys) = Cardinality(DOMAIN players)
    /\ {playerKeys[i] : i \in DOMAIN playerKeys} = DOMAIN players

\* handleMessage for an id the registry does not hold.
UnknownPlayerIgnored ==
    \A id \in PlayerIds \ DOMAIN players, ws \in Sockets, data \in MoveInputs \cup ChatInputs :
        handleMessage(data, id, ws) = Outcome(players, zonePlayers, modifications, << >>)

\* C34: in every state the registry, the id-to-socket map and the
\* socket-to-id map hold exactly one player for each session and nothing
\* else; handleMessage for an unregistered id changes and sends nothing;
\* the accept of a session adds its player, the close of a session removes
\* its player, and no other step adds or removes one.
C34_OnePlayerPerSession ==
    /\ [](RegistryMatchesSessions /\ UnknownPlayerIgnored)
    /\ [][ CASE event'.op = "connection" ->
                  /\ event'.id \notin DOMAIN players
                  /\ DOMAIN players' = DOMAIN players \cup {event'.id}
             [] event'.op = "close" ->
                  /\ event'.id \in DOMAIN players
                  /\ DOMAIN players' = DOMAIN players \ {event'.id}
             [] OTHER -> DOMAIN players' = DOMAIN players
         ]_vars

\* A session has just been closed and its player destroyed, while another
\* session keeps its own.
C34_Witness ==
    /\ event.op = "close"
    /\ event.id \notin DOMAIN players
    /\ readyState[event.ws] = "NONE"
    /\ \E ws \in Sockets : readyState[ws] = "OPEN" /\ wsToPlayerId[ws] \in DOMAIN players

\* ------------------------------------------------------------------------
\* Properties of the inventory
\* ------------------------------------------------------------------------

\* C35: every entry of every inventory has a quantity above 0, and no two
\* entries of an inventory have the same name.
C35_QuantitiesPositive ==
    \A id \in DOMAIN players :
        LET inventory == players[id].inventory
        IN  /\ \A i \in DOMAIN inventory : inventory[i].quantity > 0
            /\ \A i, j \in DOMAIN inventory :
                  inventory[i].name = inventory[j].name => i = j

\* The quantity held of an item: 0 when the inventory has no entry for it.
Held(inventory, name) ==
    IF findIndex(inventory, name) = 0 THEN 0
    ELSE inventory[findIndex(inventory, name)].quantity

\* C36: removeItem returns false and leaves the inventory as it was when
\* fewer than the requested quantity are held, the case of no entry
\* included, and returns true otherwise.
C36_RemoveNeedsEnough ==
    [][ event'.op = "removeItem" =>
          IF Held(players[event'.id].inventory, event'.itemName) < event'.quantity
          THEN /\ ~event'.result
               /\ players'[event'.id].inventory = players[event'.id].inventory
          ELSE event'.result
      ]_vars

\* ------------------------------------------------------------------------
\* The physics tick against its description
\* ------------------------------------------------------------------------

\* The footprint of a player at height y meets a solid tile in the row of
\* y, at the offset x + 0.1 or at the offset x + 0.9.
FootprintSolid(mods, x, y) ==
    isSolid(mods, x + Tenths(1), y) \/ isSolid(mods, x + Tenths(9), y)

\* Step 4 of the description: from y upward, the first of ten rows whose
\* centre is not solid.
UnstuckRows(mods, x, y) ==
    {k \in 0..9 : ~isSolid(mods, x + Tenths(5), y - Tiles(k) + Tenths(5))}

Unstuck(mods, x, step) ==
    IF /\ isSolid(mods, x + Tenths(5), step.y + Tenths(5))
       /\ UnstuckRows(mods, x, step.y) # {}
    THEN [y |-> step.y - Tiles(CHOOSE k \in UnstuckRows(mods, x, step.y) :
                                  \A j \in UnstuckRows(mods, x, step.y) : k <= j),
          v |-> 0, onGround |-> FALSE]
    ELSE step

\* Step 3 of the description, for the velocity v and the candidate height.
Collided(mods, player, v, yCandidate) ==
    IF v > 0 /\ FootprintSolid(mods, player.x, yCandidate + Tiles(1))
    THEN [y |-> Tiles(Floor(yCandidate + Tiles(1)) - 1), v |-> 0, onGround |-> TRUE]
    ELSE IF v < 0 /\ FootprintSolid(mods, player.x, yCandidate)
    THEN [y |-> Tiles(Floor(yCandidate) + 1), v |-> 0, onGround |-> player.onGround]
    ELSE [y |-> yCandidate, v |-> v,
          onGround |-> IF v >= 0
                       THEN FootprintSolid(mods, player.x, yCandidate + Tiles(1))
                       ELSE player.onGround]

\* Steps 1 to 4 of the description of the physics tick.
DescribedTick(mods, player) ==
    LET v == Min(player.velocityY.n + GravityStep, Tiles(MAX_FALL_SPEED))
    IN  Unstuck(mods, player.x,
           Collided(mods, player, v, player.y + (v * PHYSICS_TICK_RATE) \div 1000))

\* C37: for every registered player with a velocity, in every terrain the
\* edits produce, one iteration of the physics loop yields the y, the
\* velocity and the onGround of the described steps.
C37_TickAsDescribed ==
    \A id \in DOMAIN players :
        players[id].velocityY.k = "number" =>
            LET coded == PhysicsStep(modifications, players[id]).player
                described == DescribedTick(modifications, players[id])
            IN  /\ coded.y = described.y
                /\ coded.velocityY = Num(described.v)
                /\ coded.onGround = described.onGround

\* A tick has just lifted the player out of the block put into its cell:
\* it stands still one row up, off the ground.
C37_Witness ==
    /\ event.op = "tick"
    /\ ~crashed
    /\ << 0, -6 >> \in DOMAIN modifications
    /\ \E id \in DOMAIN players :
          /\ players[id].y = Tiles(-7)
          /\ players[id].velocityY = Num(0)
          /\ ~players[id].onGround

\* ------------------------------------------------------------------------
\* Properties of the heartbeat
\* ------------------------------------------------------------------------

\* C38: a socket is marked alive by its accept and by each of its pongs;
\* only a heartbeat cycle, which pings it, and its close clear the mark;
\* and a heartbeat cycle leaves every socket that is marked alive as it
\* is. So a session that answers each ping before the next cycle, and one
\* accepted since the last cycle, is not terminated by the heartbeat.
C38_AnsweringSessionSpared ==
    [][ /\ event'.op \in {"connection", "pong"} => isAlive'[event'.ws]
        /\ event'.op \notin {"heartbeat", "close"} =>
              \A ws \in Sockets : isAlive[ws] => isAlive'[ws]
        /\ event'.op = "heartbeat" =>
              \A ws \in Sockets : isAlive[ws] => readyState'[ws] = readyState[ws]
      ]_vars

\* A heartbeat cycle has just terminated the silent socket and pinged the
\* other one, which stays open.
C38_Witness ==
    /\ event.op = "heartbeat"
    /\ \E ws \in SilentSockets : readyState[ws] = "CLOSING"
    /\ \E ws \in Sockets \ SilentSockets : readyState[ws] = "OPEN" /\ ~isAlive[ws]

\* ------------------------------------------------------------------------
\* Properties of the rate limit and of the horizontal motion
\* ------------------------------------------------------------------------

\* C39: the first message of a session is handled however soon it comes
\* after the accept: a chat message that is the first event after the
\* accept of its session is broadcast.
C39_FirstMessageHandled ==
    [][ ( /\ event.op = "connection"
          /\ event'.op = "message"
          /\ event'.id = event.id
          /\ event'.data.type = "chat" ) =>
          \E i \in DOMAIN sent' : sent'[i].frame.type = "chatMessage"
      ]_vars

\* The columns a player's body covers on the way from x to the new x.
ColumnsCrossed(oldX, newX) ==
    Floor(Min(oldX, newX)) .. Floor(Max(oldX, newX) + Tenths(9))

\* C40: a move that commits a new x crosses no solid tile: no tile of the
\* player's row, in any column between the old x and the new x, is solid.
C40_MoveCrossesNoSolid ==
    [][ ( /\ Handles("move")
          /\ event'.id \in DOMAIN players'
          /\ players'[event'.id].x # players[event'.id].x ) =>
          \A column \in ColumnsCrossed(players[event'.id].x, players'[event'.id].x) :
              getTile(modifications, column, Floor(players[event'.id].y))
                  \notin SOLID_TILES
      ]_vars

\* The column handleMove probes for a move from oldX to newX.
ProbedColumn(oldX, newX) == Floor(newX + (IF newX > oldX THEN Tenths(9) ELSE 0))

\* C40, amended: an accepted move commits the new x exactly when the tile
\* of the player's row in the column the new x leads into (the column of
\* x + 0.9 for a move to the right, of x for a move to the left) is not
\* solid, and leaves x unchanged when that tile is solid; the columns in
\* between are not examined.
C40_MoveTargetNotSolid ==
    [][ ( /\ Handles("move")
          /\ event'.data.x.k = "number"
          /\ NoErrorSent ) =>
          IF getTile(modifications,
                     ProbedColumn(players[event'.id].x, event'.data.x.n),
                     Floor(players[event'.id].y)) \in SOLID_TILES
          THEN players'[event'.id].x = players[event'.id].x
          ELSE players'[event'.id].x = event'.data.x.n
      ]_vars

\* A move with a jump towards the trunk of the tree in column 2 has been
\* handled: the jump was granted and x is still 0.
C40_Witness ==
    /\ event.op = "message"
    /\ event.data = MoveData(Num(Tiles(1) + Tenths(5)), Undefined, TRUE)
    /\ players[event.id].x = 0
    /\ players[event.id].velocityY = Num(Tiles(-280))
    /\ getTile(modifications, 2, Floor(players[event.id].y)) \in SOLID_TILES

====
